---- MODULE Spec2Model ----
(***************************************************************************)
(* formik-to-conform: a model of convert (src/src/index.ts), the codemod   *)
(* that rewrites a Formik component file into its Conform equivalent.      *)
(*                                                                         *)
(* A source file is modelled by what the passes read and write: its import *)
(* declarations, the statements of one component function, the JSX that    *)
(* function returns, the names mentioned only in comments, and its layout. *)
(* One convert call is a run of the pipeline, one action per pass.         *)
(***************************************************************************)
EXTENDS Integers, Sequences, FiniteSets, TLC

VARIABLES
  input,    \* the source text handed to convert (never changed)
  pc,       \* the position of convert: the pass that runs next
  flags,    \* what convert detects right after parsing
  ast,      \* the parsed tree, mutated in place by the passes
  trace,    \* the passes run so far, in order
  printed,  \* the text formatOutput printed, as the cleanups rewrite it
  output,   \* what convert has returned (or that it threw)
  cli       \* the command-line run: the directory tree, the walk and what it logged

vars == <<input, pc, flags, ast, trace, printed, output, cli>>

(***************************************************************************)
(* Sequence helpers                                                        *)
(***************************************************************************)
Range(s) == {s[i] : i \in DOMAIN s}

\* Array.prototype.findIndex, 1-based, over the set of matching indices; 0 when none
FindIndex(matching) ==
  IF matching = {} THEN 0 ELSE CHOOSE i \in matching : \A k \in matching : i <= k

\* Array.prototype.splice(at, 0, ...items): items inserted after the first `at` elements
InsertAt(s, at, items) == SubSeq(s, 1, at) \o items \o SubSeq(s, at + 1, Len(s))

NoDuplicates(s) == \A i, k \in DOMAIN s : i # k => s[i] # s[k]

(***************************************************************************)
(* Import declarations                                                     *)
(***************************************************************************)
FORMIK == "formik"
CONFORM == "@conform-to/react"
CONFORM_YUP == "@conform-to/yup"

\* import { imported as local } : local = imported when there is no alias
Specifier(imported, local) == [imported |-> imported, local |-> local]
Named(n) == Specifier(n, n)

\* quote: how the module name is written in the text ("double" or "single")
ImportDecl(source, quote, specs) == [source |-> source, quote |-> quote, specs |-> specs]

ImportedNames(decl) == [i \in DOMAIN decl.specs |-> decl.specs[i].imported]

\* root.find(j.ImportDeclaration, { source: { value: src } })
FindImports(imports, src) == SelectSeq(imports, LAMBDA d : d.source = src)

\* formikImports.find(j.ImportSpecifier, { imported: { name: "useField" } }).size() > 0
HasUseFieldImport(imports) ==
  \E d \in Range(FindImports(imports, FORMIK)) : \E s \in Range(d.specs) : s.imported = "useField"

\* the specifiers of a list of declarations, in source order
RECURSIVE AllSpecifiers(_)
AllSpecifiers(decls) ==
  IF decls = <<>> THEN <<>> ELSE Head(decls).specs \o AllSpecifiers(Tail(decls))

\* formikImports.find(j.ImportSpecifier)
FormikSpecifiers(imports) == AllSpecifiers(FindImports(imports, FORMIK))

\* renamedImports.get(name) || name : the last alias set for `name` wins (Map.set)
RenamedLocal(imports, name) ==
  LET specs == FormikSpecifiers(imports)
      hits == {i \in DOMAIN specs : specs[i].imported = name /\ specs[i].local # name}
  IN IF hits = {} THEN name
     ELSE specs[CHOOSE i \in hits : \A k \in hits : k <= i].local

\* the conformImports Set, in insertion order
ConformImports(f) ==
  (IF f.hasUseField THEN <<"useField">> ELSE <<>>)
  \o (IF f.hasUseFormikContext THEN <<"getInputProps", "useFormMetadata">>
      ELSE IF f.hasFormik \/ f.hasUseField THEN <<"getInputProps">>
      ELSE <<>>)
  \o (IF f.hasFormik THEN <<"useForm">> ELSE <<>>)

\* formikImports.remove()
RemoveFormikImports(imports) == SelectSeq(imports, LAMBDA d : d.source # FORMIK)

\* the specifiers addConformImports builds from conformImports and renamedImports
NewSpecifiers(names, renamedFrom) ==
  [i \in DOMAIN names |-> Specifier(names[i], RenamedLocal(renamedFrom, names[i]))]

\* addConformImports, the @conform-to/yup part: parseWithYup goes after the yup import
AddYupImport(imports, hasValidationSchema) ==
  LET yupAt == FindIndex({i \in DOMAIN imports : imports[i].source = "yup"})
  IN IF hasValidationSchema
        /\ FindImports(imports, CONFORM_YUP) = <<>>
        /\ yupAt # 0
     THEN InsertAt(imports, yupAt, <<ImportDecl(CONFORM_YUP, "double", <<Named("parseWithYup")>>)>>)
     ELSE imports

\* addConformImports: merge into the first existing @conform-to/react import, or
\* insert a new declaration before the first react import (else at the top)
AddConformImports(imports, names, renamedFrom, hasValidationSchema) ==
  LET specifiers == NewSpecifiers(names, renamedFrom)
      existingAt == FindIndex({i \in DOMAIN imports : imports[i].source = CONFORM})
      reactAt == FindIndex({i \in DOMAIN imports : imports[i].source = "react"})
      merged ==
        IF existingAt # 0
        THEN LET existing == imports[existingAt]
                 existingNames == Range(ImportedNames(existing))
                 newSpecifiers == SelectSeq(specifiers, LAMBDA s : s.imported \notin existingNames)
             IN [imports EXCEPT ![existingAt].specs = existing.specs \o newSpecifiers]
        ELSE LET conformImport == ImportDecl(CONFORM, "double", specifiers)
             IN IF reactAt # 0 THEN InsertAt(imports, reactAt - 1, <<conformImport>>)
                ELSE <<conformImport>> \o imports
  IN AddYupImport(merged, hasValidationSchema)

(***************************************************************************)
(* JSX attributes and the values extracted from them                       *)
(***************************************************************************)
\* a value the code holds: undefined, a string, a boolean, or an expression node
Undef == [k |-> "undef", v |-> ""]
Str(s) == [k |-> "str", v |-> s]
Bool(b) == [k |-> "bool", v |-> IF b THEN "true" ELSE "false"]
ExprNode(e) == [k |-> "expr", v |-> e]

\* JavaScript truthiness of such a value (the code's `a || b`)
Truthy(x) == x.k = "expr" \/ (x.k = "str" /\ x.v # "") \/ x = Bool(TRUE)

\* the argument of a spread attribute: an identifier or a call
\*   callee(argVal)                 obj = ""       (getFieldProps("name"))
\*   callee(obj[argVal], opts)      computed       (getInputProps(fields["name"], {...}))
\*   callee(obj.argVal, opts)       not computed   (getInputProps(fields.name, {...}))
\*   callee(obj, opts)              argType "none" (getInputProps(field, {...}))
NoOpts == [type |-> Undef, placeholder |-> Undef, disabled |-> Undef]
Call(callee, obj, argType, argVal, computed, opts) ==
  [callee |-> callee, obj |-> obj, argType |-> argType, argVal |-> argVal,
   computed |-> computed, opts |-> opts]
NoCall == Call("", "", "none", "", FALSE, NoOpts)
Ident(name) == Call("", name, "none", "", FALSE, NoOpts)

\* shape: "none" (name only), "str" (name="v"), "ident" (name={v}), "expr" (name={...})
Attr(name, shape, val) ==
  [type |-> "JSXAttribute", name |-> name, shape |-> shape, val |-> val, arg |-> NoCall]
Spread(arg) ==
  [type |-> "JSXSpreadAttribute", name |-> "", shape |-> "", val |-> "", arg |-> arg]
NullAttr == [type |-> "null", name |-> "", shape |-> "", val |-> "", arg |-> NoCall]

Element(tag, inForm, attrs) == [tag |-> tag, inForm |-> inForm, attrs |-> attrs]

\* findAttribute: the first named attribute of that name
FindAttribute(attrs, name) ==
  LET at == FindIndex({i \in DOMAIN attrs : attrs[i].type = "JSXAttribute" /\ attrs[i].name = name})
  IN IF at = 0 THEN NullAttr ELSE attrs[at]

\* the toValue callbacks of the ATTRS table
ToValueIdentity(s) == Str(s)
ToValueDisabled(s) == IF s = "true" THEN Bool(TRUE) ELSE Str(s)
ToValue(name, s) == IF name = "disabled" THEN ToValueDisabled(s) ELSE ToValueIdentity(s)

\* extractAttributeValue: the string of a literal (through toValue), the expression
\* of a container, and defaultValue for a missing or valueless attribute
ExtractAttributeValue(attr, defaultValue, toValue) ==
  IF attr = NullAttr \/ attr.shape = "none" THEN defaultValue
  ELSE IF attr.shape = "str" THEN ToValue(toValue, attr.val)
  ELSE ExprNode(attr.val)

\* extractCustomComponentName: "" stands for null
ExtractCustomComponentName(asAttr) ==
  IF asAttr.shape = "ident" THEN asAttr.val
  ELSE IF asAttr.shape = "str" THEN asAttr.val
  ELSE ""

(***************************************************************************)
(* transformToGetInputProps: one element of the render-prop form           *)
(***************************************************************************)
\* the attributes the rewrite strips before it reads the rest
StrippedAttrs == {"onChange", "onBlur", "value"}

AfterStrip(el) ==
  SelectSeq(el.attrs, LAMBDA a : ~(a.type = "JSXAttribute" /\ a.name \in StrippedAttrs))

\* fieldName = extractAttributeValue(nameAttr, {}) : name is read on Field only
FieldNameOf(el, isField) ==
  ExtractAttributeValue(IF isField THEN FindAttribute(AfterStrip(el), "name") ELSE NullAttr,
                        Undef, "name")

\* idValue = extractAttributeValue(idAttr, { defaultValue: fieldName || "field" })
IdValueOf(el, isField) ==
  LET fieldName == FieldNameOf(el, isField)
  IN ExtractAttributeValue(FindAttribute(AfterStrip(el), "id"),
                           IF Truthy(fieldName) THEN fieldName ELSE Str("field"),
                           "id")

\* fieldName || idValue : what j.stringLiteral receives as the fields key
FieldKeyOf(el, isField) ==
  IF Truthy(FieldNameOf(el, isField)) THEN FieldNameOf(el, isField) ELSE IdValueOf(el, isField)

\* j.stringLiteral(fieldName || idValue) and j.literal(idValue) are ast-types builders:
\* they throw when handed an expression node instead of a string
BuildersThrow(el, isField) ==
  FieldKeyOf(el, isField).k # "str" \/ IdValueOf(el, isField).k = "expr"

\* the ATTRS loop: type (default "text"), placeholder, disabled
GetInputPropsProperties(el) ==
  LET attrs == AfterStrip(el)
  IN [type |-> ExtractAttributeValue(FindAttribute(attrs, "type"), Str("text"), "type"),
      placeholder |-> ExtractAttributeValue(FindAttribute(attrs, "placeholder"), Undef,
                                            "placeholder"),
      disabled |-> ExtractAttributeValue(FindAttribute(attrs, "disabled"), Undef,
                                         "disabled")]

\* a variant that keeps the attributes that were there behind the two new ones
NewAttrsKeepingOld(el, isField) ==
  <<Spread(Call("getInputProps", "fields", "StringLiteral", FieldKeyOf(el, isField).v, TRUE,
                GetInputPropsProperties(el))),
    Attr("id", "str", IdValueOf(el, isField).v)>>
  \o SelectSeq(AfterStrip(el), LAMBDA a : a.name # "id")

\* newAttrs = [ {...getInputProps(fields[key], {...})}, id=idValue ]
NewAttrs(el, isField) ==
  <<Spread(Call("getInputProps", "fields", "StringLiteral", FieldKeyOf(el, isField).v, TRUE,
                GetInputPropsProperties(el))),
    Attr("id", "str", IdValueOf(el, isField).v)>>

\* the tag of the replacement: the `as` component, else input; a plain element keeps its tag
NewTag(el, isField) ==
  LET asAttr == FindAttribute(AfterStrip(el), "as")
      custom == ExtractCustomComponentName(asAttr)
  IN IF ~isField THEN el.tag
     ELSE IF asAttr # NullAttr /\ asAttr.shape # "none" /\ custom # "" THEN custom
     ELSE "input"

TransformElement(el, isField) ==
  [el EXCEPT !.tag = NewTag(el, isField), !.attrs = NewAttrs(el, isField)]

\* j(formJSX).find(j.JSXElement, { openingElement: { name: { name: elementSelector } } })
Selected(el, elementSelector) == el.inForm /\ el.tag = elementSelector

TransformToGetInputProps(elements, elementSelector, isField) ==
  [i \in DOMAIN elements |->
     IF Selected(elements[i], elementSelector)
     THEN TransformElement(elements[i], isField)
     ELSE elements[i]]

ToGetInputPropsThrows(elements, elementSelector, isField) ==
  \E el \in Range(elements) : Selected(el, elementSelector) /\ BuildersThrow(el, isField)

(***************************************************************************)
(* Statements of the component function                                    *)
(***************************************************************************)
\* jscodeshift.withParser("tsx") is @babel/parser without the estree plugin: the
\* members of an object pattern are ObjectProperty nodes (string literals are
\* StringLiteral nodes, which the code relies on throughout)
ParserPropertyType == "ObjectProperty"

\* kind "decl":   const <id> = <init>[.member]   (one declarator)
\*      idType "Identifier" (idName), "ObjectPattern" (props), "ArrayPattern" (shape, props)
\* kind "helper": a declaration one of the passes synthesizes; init.callee tells its body
\* kind "other":  any other statement: the identifiers in it (refs), the identifiers
\*      it calls (calls) and the calls it awaits (awaits)
\* nested: the declaration stands in a block (if, try, for) of the function body, so
\*      the statement of the body is that block and not a VariableDeclaration
BaseStmt ==
  [kind |-> "other", idType |-> "", idName |-> "", props |-> <<>>,
   propType |-> ParserPropertyType, shape |-> "", init |-> NoCall, typeArg |-> FALSE,
   member |-> "", refs |-> {}, calls |-> {}, awaits |-> {}, nested |-> FALSE]

Other(refs, calls, awaits) ==
  [BaseStmt EXCEPT !.refs = refs, !.calls = calls, !.awaits = awaits]
ObjectDecl(props, init) ==
  [BaseStmt EXCEPT !.kind = "decl", !.idType = "ObjectPattern", !.props = props, !.init = init]
IdentDecl(name, init, member) ==
  [BaseStmt EXCEPT !.kind = "decl", !.idType = "Identifier", !.idName = name,
                   !.init = init, !.member = member]
Helper(name, body) ==
  [BaseStmt EXCEPT !.kind = "helper", !.idType = "Identifier", !.idName = name,
                   !.init = Call(body, "", "none", "", FALSE, NoOpts)]

HookCall(callee) == Call(callee, "", "none", "", FALSE, NoOpts)
FieldPropsCall(argType, argVal) == Call("getFieldProps", "", argType, argVal, FALSE, NoOpts)
TextOpts == [NoOpts EXCEPT !.type = Str("text")]
\* getInputProps(fields[arg], { type: t })
InputPropsCall(argType, argVal, t) ==
  Call("getInputProps", "fields", argType, argVal, TRUE, [NoOpts EXCEPT !.type = Str(t)])

\* the Identifier nodes of a call expression
CallIdentifiers(c) ==
  (IF c.callee = "" THEN {} ELSE {c.callee})
  \cup (IF c.obj = "" THEN {} ELSE {c.obj})
  \cup (IF c.argType = "Identifier" THEN {c.argVal} ELSE {})
  \cup {n \in {"type", "placeholder", "disabled"} : c.opts[n] # Undef}

\* the Identifier nodes of the declarations the passes synthesize
HelperIdentifiers(s) ==
  CASE s.init.callee = "form.value" -> {s.idName, "form", "value"}
    [] s.init.callee = "form.update" -> {s.idName, "form", "update"}
    [] s.init.callee = "direct" ->
         {s.idName, "name", "value", "shouldValidate", "form", "update", "validated"}
    [] s.init.callee = "viaUpdate" ->
         {s.idName, "name", "value", "shouldValidate", "update", "validated"}
    [] s.init.callee = "form.getFieldset" -> {s.idName, "form", "getFieldset"}
    [] s.init.callee = "stub" -> {s.idName, "_", "__", "___"}
    [] s.init.callee = "false" -> {s.idName}
    [] s.init.callee = "field.value" -> {s.idName, "field", "value"}
    [] s.init.callee = "setValue" ->
         {s.idName, "value", "shouldValidate", "form", "update", "name", "validated"}
         \cup (IF s.init.argType = "Identifier" THEN {s.init.argVal} ELSE {})
    [] s.init.callee = "touchedStub" -> {s.idName, "_", "__"}
    [] s.init.callee = "useForm" ->
         {"form", "fields", "useForm", "defaultValue"}
         \cup (IF s.init.obj = "" THEN {} ELSE {"onValidate", "formData", "parseWithYup", "schema"})
    [] OTHER -> {s.idName}

\* the names an array pattern binds: [{ value }, , { ...props }], [field], [field, form]
ArrayPatternNames(s) ==
  CASE s.shape = "three" -> {"value"} \cup Range(s.props)
    [] s.shape = "fieldForm" -> {"field", "form"}
    [] OTHER -> {"field"}

\* j(stmt).find(j.Identifier): the names of the Identifier nodes in a statement
StmtIdentifiers(s) ==
  CASE s.kind = "other" -> s.refs
    [] s.kind = "helper" -> HelperIdentifiers(s)
    [] OTHER ->
         (CASE s.idType = "Identifier" -> {s.idName}
            [] s.idType = "ObjectPattern" -> Range(s.props)
            [] OTHER -> ArrayPatternNames(s))
         \cup CallIdentifiers(s.init)
         \cup (IF s.member = "" THEN {} ELSE {s.member})

\* the names of the Identifier nodes of the returned JSX: those of the expressions
\* in it (refs) and of the spread arguments of its elements
AttrIdentifiers(a) ==
  CallIdentifiers(a.arg) \cup (IF a.shape = "ident" THEN {a.val} ELSE {})

JsxIdentifiers(jsx) ==
  jsx.refs
  \cup UNION {AttrIdentifiers(a) : a \in UNION {Range(el.attrs) : el \in Range(jsx.elements)}}

\* j(funcNode).find(j.Identifier, { name }) over the enclosing function
FunctionIdentifiers(stmts, jsx) ==
  UNION {StmtIdentifiers(s) : s \in Range(stmts)} \cup JsxIdentifiers(jsx)

(***************************************************************************)
(* transformFormikContextUsage and its sub-passes                          *)
(***************************************************************************)
SetterNames == {"setFieldValue", "setFieldTouched", "setValue", "setTouched"}

\* the variant that knows the setters of the context hook only
RemoveAwaitFromContextSetters(stmts) ==
  [i \in DOMAIN stmts |-> [stmts[i] EXCEPT !.awaits = @ \ {"setFieldValue", "setFieldTouched"}]]

\* removeAwaitFromSetFieldCalls: `await setX(...)` becomes `setX(...)` in every function
RemoveAwaitFromSetFieldCalls(stmts) ==
  [i \in DOMAIN stmts |-> [stmts[i] EXCEPT !.awaits = @ \ SetterNames]]

Rename(names, from, to) == (names \ {from}) \cup (IF from \in names THEN {to} ELSE {})

\* every call of useFormikContext gets the callee useFormMetadata
RenameContextCalls(stmts) ==
  [i \in DOMAIN stmts |->
     LET s == stmts[i]
     IN IF s.kind = "decl" /\ s.init.callee = "useFormikContext"
        THEN [s EXCEPT !.init.callee = "useFormMetadata"]
        ELSE IF s.kind = "other" /\ "useFormikContext" \in s.calls
        THEN [s EXCEPT !.calls = Rename(@, "useFormikContext", "useFormMetadata"),
                       !.refs = Rename(@, "useFormikContext", "useFormMetadata")]
        ELSE s]

\* extractFieldNameFromArg: the literal's value or the identifier's name, else ""
ExtractFieldNameFromArg(argType, argVal) ==
  IF argType \in {"StringLiteral", "Identifier"} THEN argVal ELSE ""

\* transformGetFieldPropsObjectPattern on one statement: the statements replacing it
GetFieldPropsObjectPatternStmt(s) ==
  LET fieldName == ExtractFieldNameFromArg(s.init.argType, s.init.argVal)
      matches == /\ s.kind = "decl" /\ s.idType = "ObjectPattern"
                 /\ s.init.callee = "getFieldProps" /\ s.member = ""
                 /\ s.init.argType # "none" /\ fieldName # ""
      hasValueProperty == s.propType = "Property" /\ "value" \in Range(s.props)
      newInit == InputPropsCall(s.init.argType, s.init.argVal, "text")
      \* the variable `${fieldName}FieldProps`: its name is kept as fieldName under
      \* the shape "FieldProps"
      propsVar == [IdentDecl(fieldName, newInit, "") EXCEPT !.shape = "FieldProps"]
  IN IF ~matches THEN <<s>>
     ELSE IF hasValueProperty
     THEN <<propsVar, [IdentDecl("value", Ident(fieldName), "value") EXCEPT !.shape = "FieldProps"]>>
     ELSE <<[s EXCEPT !.init = newInit]>>

RECURSIVE TransformGetFieldPropsObjectPattern(_)
TransformGetFieldPropsObjectPattern(stmts) ==
  IF stmts = <<>> THEN <<>>
  ELSE GetFieldPropsObjectPatternStmt(Head(stmts))
       \o TransformGetFieldPropsObjectPattern(Tail(stmts))

\* createFieldAccessor: fields[ident] for an identifier, fields["name"] otherwise
FieldAccessorArgType(argType) == IF argType = "Identifier" THEN "Identifier" ELSE "StringLiteral"

\* transformJSXGetFieldProps on one element: each {...getFieldProps(arg)} becomes
\* {...getInputProps(fields[arg], { type })}, the type taken from (and removed with)
\* the element's type attribute
JSXGetFieldPropsElement(el) ==
  LET rewritable(a) ==
        /\ a.type = "JSXSpreadAttribute" /\ a.arg.callee = "getFieldProps"
        /\ a.arg.argType # "none"
        /\ ExtractFieldNameFromArg(a.arg.argType, a.arg.argVal) # ""
      typeAttr == FindAttribute(el.attrs, "type")
      typeValue == IF typeAttr # NullAttr /\ typeAttr.shape = "str" THEN typeAttr.val ELSE "text"
      rewritten ==
        [i \in DOMAIN el.attrs |->
           IF rewritable(el.attrs[i])
           THEN Spread(InputPropsCall(FieldAccessorArgType(el.attrs[i].arg.argType),
                                      el.attrs[i].arg.argVal, typeValue))
           ELSE el.attrs[i]]
  IN IF \E a \in Range(el.attrs) : rewritable(a)
     THEN [el EXCEPT !.attrs = SelectSeq(rewritten,
                                LAMBDA a : ~(a.type = "JSXAttribute" /\ a.name = "type"))]
     ELSE el

TransformJSXGetFieldProps(elements) ==
  [i \in DOMAIN elements |-> JSXGetFieldPropsElement(elements[i])]

\* transformGetFieldPropsPropertyAccess: getFieldProps(arg).prop keeps .prop on the new call
TransformGetFieldPropsPropertyAccess(stmts) ==
  [i \in DOMAIN stmts |->
     LET s == stmts[i]
     IN IF /\ s.kind = "decl" /\ s.init.callee = "getFieldProps" /\ s.member # ""
           /\ ExtractFieldNameFromArg(s.init.argType, s.init.argVal) # ""
        THEN [s EXCEPT !.init = InputPropsCall(s.init.argType, s.init.argVal, "text")]
        ELSE s]

(***************************************************************************)
(* transformFormikContextDestructuring and createFormHelperDeclarations    *)
(***************************************************************************)
\* the names the usage scan looks for, in the order of the list in the source
RefNameList == <<"setFieldValue", "setFieldTouched", "isSubmitting", "update", "values",
                 "getFieldProps">>

\* propNames: the keys of the pattern's members of node type Property
PropNames(s) == IF s.propType = "Property" THEN s.props ELSE <<>>

\* referencedNames: the listed names with an Identifier node in the enclosing function
ReferencedNames(stmts, jsx) ==
  SelectSeq(RefNameList, LAMBDA n : n \in FunctionIdentifiers(stmts, jsx))

Includes(s, n) == n \in Range(s)

\* the usesX flags and onlySetFieldValue
UsageProfile(propNames, referencedNames) ==
  [usesSetFieldValue |-> Includes(propNames, "setFieldValue")
                         \/ Includes(referencedNames, "setFieldValue"),
   usesValues |-> Includes(propNames, "values") \/ Includes(referencedNames, "values"),
   usesSetFieldTouched |-> Includes(propNames, "setFieldTouched")
                           \/ Includes(referencedNames, "setFieldTouched"),
   usesIsSubmitting |-> Includes(propNames, "isSubmitting")
                        \/ Includes(referencedNames, "isSubmitting"),
   usesGetFieldProps |-> Includes(propNames, "getFieldProps")
                         \/ Includes(referencedNames, "getFieldProps"),
   onlySetFieldValue |-> \/ (Len(propNames) = 1 /\ propNames[1] = "setFieldValue")
                         \/ (Len(referencedNames) = 1 /\ referencedNames[1] = "setFieldValue")]

\* useDirectFormUpdate: setFieldValue without values, setFieldTouched and isSubmitting
UseDirectFormUpdate(u) ==
  u.usesSetFieldValue /\ ~u.usesValues /\ ~u.usesSetFieldTouched /\ ~u.usesIsSubmitting

\* a variant that emits every helper whatever the profile says
CreateAllFormHelperDeclarations(u) ==
  <<Helper("values", "form.value"), Helper("update", "form.update"),
    Helper("setFieldValue", "viaUpdate"), Helper("fields", "form.getFieldset"),
    Helper("setFieldTouched", "stub"), Helper("isSubmitting", "false")>>

\* a variant that declares update whenever setFieldValue is used, also when
\* setFieldValue calls form.update itself
CreateFormHelperDeclarationsUpdateAlways(u) ==
  (IF u.usesValues THEN <<Helper("values", "form.value")>> ELSE <<>>)
  \o (IF u.usesSetFieldValue
      THEN <<Helper("update", "form.update"),
             Helper("setFieldValue",
                    IF u.onlySetFieldValue \/ UseDirectFormUpdate(u) THEN "direct"
                    ELSE "viaUpdate")>>
      ELSE <<>>)
  \o (IF u.usesGetFieldProps THEN <<Helper("fields", "form.getFieldset")>> ELSE <<>>)
  \o (IF u.usesSetFieldTouched THEN <<Helper("setFieldTouched", "stub")>> ELSE <<>>)
  \o (IF u.usesIsSubmitting THEN <<Helper("isSubmitting", "false")>> ELSE <<>>)

\* createFormHelperDeclarations: values, update, setFieldValue, fields,
\* setFieldTouched, isSubmitting, each only when the profile asks for it
CreateFormHelperDeclarations(u) ==
  (IF u.usesValues THEN <<Helper("values", "form.value")>> ELSE <<>>)
  \o (IF u.usesSetFieldValue /\ ~u.onlySetFieldValue /\ ~UseDirectFormUpdate(u)
      THEN <<Helper("update", "form.update")>> ELSE <<>>)
  \o (IF u.usesSetFieldValue
      THEN <<Helper("setFieldValue",
                    IF u.onlySetFieldValue \/ UseDirectFormUpdate(u) THEN "direct"
                    ELSE "viaUpdate")>>
      ELSE <<>>)
  \o (IF u.usesGetFieldProps THEN <<Helper("fields", "form.getFieldset")>> ELSE <<>>)
  \o (IF u.usesSetFieldTouched THEN <<Helper("setFieldTouched", "stub")>> ELSE <<>>)
  \o (IF u.usesIsSubmitting THEN <<Helper("isSubmitting", "false")>> ELSE <<>>)

\* a declarator the loop rewrites: an object pattern initialised by useFormMetadata()
IsContextDestructure(s) ==
  s.kind = "decl" /\ s.init.callee = "useFormMetadata" /\ s.member = ""
  /\ s.idType = "ObjectPattern"

\* the statement whose first declarator binds the identifier form
IsFormDeclaration(s) ==
  s.kind \in {"decl", "helper"} /\ s.idType = "Identifier" /\ s.idName = "form" /\ ~s.nested

\* one iteration of the loop, on the destructure at index `at`: the pattern becomes
\* the identifier form, and the helpers go right after the first form declaration
RewriteContextDestructure(stmts, jsx, at) ==
  LET s == stmts[at]
      profile == UsageProfile(PropNames(s), ReferencedNames(stmts, jsx))
      insertDecls == CreateFormHelperDeclarations(profile)
      renamed == [stmts EXCEPT ![at] = [s EXCEPT !.idType = "Identifier", !.idName = "form",
                                                 !.props = <<>>]]
      formIdx == FindIndex({i \in DOMAIN renamed : IsFormDeclaration(renamed[i])})
  IN IF formIdx # 0 /\ insertDecls # <<>> THEN InsertAt(renamed, formIdx, insertDecls)
     ELSE renamed

\* the loop over the declarators found up front, in source order
RECURSIVE TransformFormikContextDestructuring(_, _)
TransformFormikContextDestructuring(stmts, jsx) ==
  LET at == FindIndex({i \in DOMAIN stmts : IsContextDestructure(stmts[i])})
  IN IF at = 0 THEN stmts
     ELSE TransformFormikContextDestructuring(RewriteContextDestructure(stmts, jsx, at), jsx)

\* transformFormikContextUsage: the tree after the whole pass
TransformFormikContextUsage(tree) ==
  LET s1 == RenameContextCalls(RemoveAwaitFromSetFieldCalls(tree.stmts))
      s2 == TransformGetFieldPropsObjectPattern(s1)
      jsx2 == [tree.jsx EXCEPT !.elements = TransformJSXGetFieldProps(@)]
      s3 == TransformFormikContextDestructuring(s2, jsx2)
      s4 == TransformGetFieldPropsPropertyAccess(s3)
  IN [tree EXCEPT !.stmts = s4, !.jsx = [jsx2 EXCEPT !.elements = TransformJSXGetFieldProps(@)]]

(***************************************************************************)
(* The per-field hook passes                                               *)
(***************************************************************************)
\* the identifiers the function calls: j(funcNode).find(j.CallExpression, { callee })
FunctionCalls(stmts, jsx) ==
  UNION {IF s.kind = "other" THEN s.calls
         ELSE IF s.kind = "decl" /\ s.init.callee # "" THEN {s.init.callee}
         ELSE {} : s \in Range(stmts)}
  \cup jsx.calls
  \cup {a.arg.callee : a \in {b \in UNION {Range(el.attrs) : el \in Range(jsx.elements)} :
                               b.arg.callee # ""}}

\* const [{ value }, , { setValue, ... }] = useField(arg)
IsUseFieldDestructure(s) ==
  s.kind = "decl" /\ s.init.callee = "useField" /\ s.member = ""
  /\ s.idType = "ArrayPattern" /\ s.shape = "three"

\* const setValue = (value, shouldValidate?) => form.update({ name, value, validated })
\* name is the literal of the hook's argument, the identifier it named, or "user"
SetValueHelper(s) ==
  [Helper("setValue", "setValue") EXCEPT
     !.init.argType = IF s.init.argType = "Identifier" THEN "Identifier" ELSE "StringLiteral",
     !.init.argVal = IF s.init.argType \in {"StringLiteral", "Identifier"} THEN s.init.argVal
                     ELSE "user",
     !.typeArg = s.typeArg]

\* one match of the loop: [field, form], then value, setValue and (when used) setTouched
\* right after the declaration, when the declaration is a statement of the function
\* body (statements.findIndex finds it); the pattern is renamed in either case
RewriteUseFieldDestructure(stmts, jsx, at) ==
  LET s == stmts[at]
      hasTouchedProperty == s.propType = "Property" /\ "setTouched" \in Range(s.props)
      hasSetTouchedCalls == "setTouched" \in FunctionCalls(stmts, jsx)
      declarations ==
        <<Helper("value", "field.value"), SetValueHelper(s)>>
        \o (IF hasTouchedProperty \/ hasSetTouchedCalls
            THEN <<Helper("setTouched", "touchedStub")>> ELSE <<>>)
      renamed == [stmts EXCEPT ![at] = [s EXCEPT !.shape = "fieldForm", !.props = <<>>]]
  IN IF s.nested THEN renamed ELSE InsertAt(renamed, at, declarations)

RECURSIVE UseFieldDestructureLoop(_, _)
UseFieldDestructureLoop(stmts, jsx) ==
  LET at == FindIndex({i \in DOMAIN stmts : IsUseFieldDestructure(stmts[i])})
  IN IF at = 0 THEN stmts
     ELSE UseFieldDestructureLoop(RewriteUseFieldDestructure(stmts, jsx, at), jsx)

\* transformUseFieldDestructurePatterns
TransformUseFieldDestructurePatterns(stmts, jsx) ==
  UseFieldDestructureLoop(RemoveAwaitFromSetFieldCalls(stmts), jsx)

\* transformUseFieldInputs on one attribute of an input element
UseFieldInputAttr(a) ==
  IF a.type = "JSXSpreadAttribute" /\ a.arg = Ident("field")
  THEN Spread(Call("getInputProps", "field", "none", "", FALSE, TextOpts))
  ELSE IF a.type = "JSXSpreadAttribute" /\ a.arg.callee = "getFieldProps"
          /\ a.arg.argType # "none"
  THEN Spread(Call("getInputProps", "fields", "Identifier",
                   IF a.arg.argType = "StringLiteral" THEN a.arg.argVal ELSE "field",
                   TRUE, NoOpts))
  ELSE a

\* transformUseFieldInputs: every input element of the file
TransformUseFieldInputs(elements) ==
  [i \in DOMAIN elements |->
     IF elements[i].tag = "input"
     THEN [elements[i] EXCEPT !.attrs = [k \in DOMAIN @ |-> UseFieldInputAttr(@[k])]]
     ELSE elements[i]]

(***************************************************************************)
(* transformFormComponents                                                 *)
(***************************************************************************)
\* <Form ...> becomes <form onSubmit={form.onSubmit}> around the same children
TransformFormComponents(jsx) ==
  IF jsx.formTag = "Form" THEN [jsx EXCEPT !.formTag = "form", !.onSubmit = "form.onSubmit"]
  ELSE jsx

(***************************************************************************)
(* transformFormikComponents and insertUseFormDeclaration                  *)
(***************************************************************************)
\* what <Formik> holds: formik is "none" (no such element) or the shape of its children
\*   "elements"       JSX children only, no expression container
\*   "nonFunction"    {expr} whose expression is not a function
\*   "fnJSX"          {(props) => <form .../>}
\*   "fnBlockJSX"     {(props) => { ...; return <form .../>; }}
\*   "fnBlockNoReturn" a block body without a top-level return
\*   "fnBlockOther"   a block body returning something that is no JSX element
\*   "fnOther"        an expression body that is no JSX element
ChildrenShapes ==
  {"elements", "nonFunction", "fnJSX", "fnBlockJSX", "fnBlockNoReturn", "fnBlockOther", "fnOther"}

\* childrenFn && isFunctionExpression(childrenFn)
HasChildrenFunction(shape) == shape \notin {"elements", "nonFunction"}

\* formJSX: the JSX element the function returns, if it returns one
HasFormJSX(shape) == shape \in {"fnJSX", "fnBlockJSX"}

\* the two `throw new Error("Invalid children function")`
InvalidChildrenFunction(shape) == ~HasChildrenFunction(shape) \/ ~HasFormJSX(shape)

\* const [form, fields] = useForm({ defaultValue, onValidate? })
\* defaultValue is initialValues when that is an object literal or an identifier, else {}
UseFormDecl(initialValues, validationSchema) ==
  [BaseStmt EXCEPT !.kind = "helper", !.idType = "ArrayPattern", !.shape = "formFields",
     !.init = Call("useForm", IF validationSchema THEN "schema" ELSE "", "none",
                   IF initialValues \in {"object", "ident"} THEN initialValues ELSE "empty",
                   FALSE, NoOpts)]

\* updateOnSubmitAttr: every onSubmit attribute inside formJSX
UpdateOnSubmitAttr(onSubmit) == IF onSubmit = "none" THEN "none" ELSE "form.onSubmit"

\* the loop body throws: no render-prop form, or a builder rejects a name or id
FormikComponentsThrow(tree) ==
  /\ tree.jsx.formik # "none"
  /\ \/ InvalidChildrenFunction(tree.jsx.formik)
     \/ ToGetInputPropsThrows(tree.jsx.elements, "input", FALSE)
     \/ ToGetInputPropsThrows(tree.jsx.elements, "Field", TRUE)

\* insertUseFormDeclaration: the declaration is put first in the closest function
\* when that function has a block body, and nowhere otherwise
InsertUseFormDeclaration(stmts, jsx) ==
  IF jsx.component = "block"
  THEN <<UseFormDecl(jsx.initialValues, jsx.validationSchema)>> \o stmts
  ELSE stmts

\* transformFormikComponents when nothing throws: onSubmit rewired, inputs then Fields
\* rewritten, useForm put first in the component, <Formik> replaced by its form
TransformFormikComponents(tree) ==
  IF tree.jsx.formik = "none" THEN tree
  ELSE [tree EXCEPT
          !.stmts = InsertUseFormDeclaration(@, tree.jsx),
          !.jsx = [@ EXCEPT
                     !.formik = "none",
                     !.onSubmit = UpdateOnSubmitAttr(@),
                     !.elements = TransformToGetInputProps(
                                    TransformToGetInputProps(@, "input", FALSE),
                                    "Field", TRUE)]]

(***************************************************************************)
(* transformFieldAccessPatterns                                            *)
(***************************************************************************)
\* 1. const x = getFieldProps(arg) becomes getInputProps(fields[arg], { type: "text" })
NormalizeGetFieldPropsVars(stmts) ==
  [i \in DOMAIN stmts |->
     LET s == stmts[i]
     IN IF /\ s.kind = "decl" /\ s.init.callee = "getFieldProps" /\ s.member = ""
           /\ s.init.argType \in {"Identifier", "StringLiteral", "NumericLiteral"}
        THEN [s EXCEPT !.init = InputPropsCall(s.init.argType, s.init.argVal, "text")]
        ELSE s]

\* the variant of step 2 that flips the notation of the access
NormalizeCallFlipping(c) ==
  IF c.callee = "getInputProps" /\ c.obj = "fields" /\ c.argType = "Identifier"
  THEN [c EXCEPT !.computed = ~@]
  ELSE c

\* the variant of step 3 that leaves the call arguments alone
NormalizeDotAccessNever(c) == c

\* 2. getInputProps(fields.x, ...) becomes getInputProps(fields[x], ...)
NormalizeCall(c) ==
  IF c.callee = "getInputProps" /\ c.obj = "fields" /\ c.argType = "Identifier" /\ ~c.computed
  THEN [c EXCEPT !.computed = TRUE]
  ELSE c

\* 3. a fields.x that is still in dot notation becomes fields["x"]
NormalizeDotAccess(c) ==
  IF c.obj = "fields" /\ c.argType = "Identifier" /\ ~c.computed
  THEN [c EXCEPT !.computed = TRUE, !.argType = "StringLiteral"]
  ELSE c

\* the whole pass: steps 1, 2 and 3 over the declarations, the spread calls of the
\* JSX and the accesses written elsewhere (dots: in dot notation, keys: fields["x"])
TransformFieldAccessPatterns(tree) ==
  [tree EXCEPT
     !.stmts = [i \in DOMAIN @ |->
                  [NormalizeGetFieldPropsVars(@)[i] EXCEPT
                     !.init = NormalizeDotAccess(NormalizeCall(@))]],
     !.jsx = [@ EXCEPT
                !.elements = [i \in DOMAIN @ |->
                                [@[i] EXCEPT !.attrs = [k \in DOMAIN @ |->
                                   [@[k] EXCEPT !.arg = NormalizeDotAccess(NormalizeCall(@))]]]],
                !.keys = @ \cup tree.jsx.dots,
                !.dots = {}]]

(***************************************************************************)
(* The source text: what code.includes(...) sees, printing and cleanups    *)
(***************************************************************************)
\* a text is the tree plus what only the text has: the words that occur in comments
\* only (comment) and the layout, "source" as the author wrote it or "pretty" as
\* the formatter prints it
TreeOf(text) == [imports |-> text.imports, stmts |-> text.stmts, jsx |-> text.jsx]

\* every identifier written in the program part of the text
TextIdentifiers(text) ==
  FunctionIdentifiers(text.stmts, text.jsx)
  \cup UNION {{s.imported, s.local} : s \in Range(AllSpecifiers(text.imports))}

\* code.includes('from "formik"'): only the double-quoted spelling matches
TextIncludesFromFormik(text) ==
  \/ \E d \in Range(text.imports) : d.source = FORMIK /\ d.quote = "double"
  \/ "from \"formik\"" \in text.comment

\* code.includes("useFormikContext")
TextIncludesUseFormikContext(text) ==
  "useFormikContext" \in TextIdentifiers(text) \cup text.comment

\* code.includes("validationSchema")
TextIncludesValidationSchema(text) ==
  \/ text.jsx.validationSchema
  \/ "validationSchema" \in TextIdentifiers(text) \cup text.comment

\* a prefilter that lets every text through
UsesFormikAlways(text) == TRUE

\* hasFormikImport || hasUseFormikContext
UsesFormik(text) == TextIncludesFromFormik(text) \/ TextIncludesUseFormikContext(text)

\* root.findJSXElements("Formik").size() > 0
HasFormik(tree) == tree.jsx.formik # "none"

\* what convert computes between parsing and the first pass
NoFlags ==
  [hasUseFormikContext |-> FALSE, hasValidationSchema |-> FALSE, hasUseField |-> FALSE,
   hasFormik |-> FALSE, formikImports |-> <<>>]

DetectFlags(text) ==
  [hasUseFormikContext |-> TextIncludesUseFormikContext(text),
   hasValidationSchema |-> TextIncludesValidationSchema(text),
   hasUseField |-> HasUseFieldImport(text.imports),
   hasFormik |-> HasFormik(TreeOf(text)),
   formikImports |-> FindImports(text.imports, FORMIK)]

\* formatOutput: the printer and the formatter write every module name in double
\* quotes and lay the program out afresh; comments stay
FormatOutput(tree, comment) ==
  [imports |-> [i \in DOMAIN tree.imports |-> [tree.imports[i] EXCEPT !.quote = "double"]],
   stmts |-> tree.stmts, jsx |-> tree.jsx, comment |-> comment, layout |-> "pretty"]

\* cleanupDuplicateImports, first replace: import { ... } from "formik" is deleted
RemoveFormikImportText(imports) ==
  SelectSeq(imports, LAMBDA d : ~(d.source = FORMIK /\ d.quote = "double" /\ d.specs # <<>>))

\* the text of a specifier as printed: `a` or `a as b`
SameSpecifierText(s, t) == s.imported = t.imported /\ s.local = t.local

\* cleanupDuplicateImports, second and third replace: of two neighbouring
\* @conform-to/react imports the second is dropped when it holds exactly the last
\* name of the first, and the first holds at least two
RECURSIVE MergeAdjacentConformImports(_)
MergeAdjacentConformImports(imports) ==
  IF Len(imports) < 2 THEN imports
  ELSE LET first == imports[1]
           second == imports[2]
           matches == /\ first.source = CONFORM /\ second.source = CONFORM
                      /\ first.quote = "double" /\ second.quote = "double"
                      /\ Len(first.specs) >= 2 /\ Len(second.specs) = 1
                      /\ SameSpecifierText(first.specs[Len(first.specs)], second.specs[1])
       IN IF matches
          THEN <<first>> \o MergeAdjacentConformImports(SubSeq(imports, 3, Len(imports)))
          ELSE <<first>> \o MergeAdjacentConformImports(Tail(imports))

CleanupDuplicateImports(text) ==
  [text EXCEPT !.imports = MergeAdjacentConformImports(RemoveFormikImportText(@))]

\* fixValidationSchemaFormatting and the final replace of convert: they rewrite the
\* spelling of onValidate and delete blank lines, which leaves the printed program
\* (imports, statements, JSX) what it was
FinalWhitespaceCleanup(text) == [text EXCEPT !.layout = "pretty"]

(***************************************************************************)
(* convert: one action per pass                                            *)
(***************************************************************************)
\* component: the body of the function the JSX stands in: "block" ({ ...; return <jsx/> }),
\* "expression" (an arrow function returning the JSX directly)
EmptyJsx ==
  [formik |-> "none", initialValues |-> "none", validationSchema |-> FALSE,
   formTag |-> "none", onSubmit |-> "none", elements |-> <<>>,
   refs |-> {}, calls |-> {}, dots |-> {}, keys |-> {}, component |-> "block"]

NoTree == [imports |-> <<>>, stmts |-> <<>>, jsx |-> EmptyJsx]
NoText == [layout |-> "none"]
NoOutput == [status |-> "none", text |-> NoText]

\* no command-line run: convert is called on its own
NoCli ==
  [target |-> "none", fs |-> <<>>, listable |-> <<>>, phase |-> "off", stack |-> <<>>,
   attempted |-> <<>>, converted |-> <<>>, written |-> <<>>, log |-> <<>>]

\* the passes of convert, in the order of its source
PassOrder ==
  <<"transformFormikContextUsage", "removeFormikImports", "addConformImports",
    "transformUseField", "transformFormComponents", "transformFormikComponents",
    "transformFieldAccessPatterns", "formatOutput", "cleanupDuplicateImports",
    "whitespaceCleanup">>

\* the first pass after parsing, and the pass after the imports are rewritten
AfterParse(f) ==
  IF f.hasUseFormikContext THEN "transformFormikContextUsage" ELSE "removeFormikImports"
\* a variant that runs the per-field hook passes on every file
AfterImportsAlways(f) == "transformUseField"

AfterImports(f) == IF f.hasUseField THEN "transformUseField" ELSE "transformFormComponents"

\* if (!(hasFormikImport || hasUseFormikContext)) return code;
BailOut ==
  /\ pc = "start"
  /\ ~UsesFormik(input)
  /\ pc' = "done"
  /\ output' = [status |-> "returned", text |-> input]
  /\ UNCHANGED <<cli, input, flags, ast, trace, printed>>

\* j(code) and the detection of what the file uses
Parse ==
  /\ pc = "start"
  /\ UsesFormik(input)
  /\ ast' = TreeOf(input)
  /\ flags' = DetectFlags(input)
  /\ pc' = AfterParse(DetectFlags(input))
  /\ UNCHANGED <<cli, input, trace, printed, output>>

ContextUsage ==
  /\ pc = "transformFormikContextUsage"
  /\ ast' = TransformFormikContextUsage(ast)
  /\ trace' = Append(trace, pc)
  /\ pc' = "removeFormikImports"
  /\ UNCHANGED <<cli, input, flags, printed, output>>

RemoveImports ==
  /\ pc = "removeFormikImports"
  /\ ast' = [ast EXCEPT !.imports = RemoveFormikImports(@)]
  /\ trace' = Append(trace, pc)
  /\ pc' = "addConformImports"
  /\ UNCHANGED <<cli, input, flags, printed, output>>

AddImports ==
  /\ pc = "addConformImports"
  /\ ast' = [ast EXCEPT !.imports = AddConformImports(@, ConformImports(flags),
                                                      flags.formikImports,
                                                      flags.hasValidationSchema)]
  /\ trace' = Append(trace, pc)
  /\ pc' = AfterImports(flags)
  /\ UNCHANGED <<cli, input, flags, printed, output>>

UseFieldPasses ==
  /\ pc = "transformUseField"
  /\ ast' = [ast EXCEPT
               !.stmts = TransformUseFieldDestructurePatterns(@, ast.jsx),
               !.jsx = [@ EXCEPT !.elements = TransformUseFieldInputs(@)]]
  /\ trace' = Append(trace, pc)
  /\ pc' = "transformFormComponents"
  /\ UNCHANGED <<cli, input, flags, printed, output>>

FormComponents ==
  /\ pc = "transformFormComponents"
  /\ ast' = [ast EXCEPT !.jsx = TransformFormComponents(@)]
  /\ trace' = Append(trace, pc)
  /\ pc' = "transformFormikComponents"
  /\ UNCHANGED <<cli, input, flags, printed, output>>

FormikComponents ==
  /\ pc = "transformFormikComponents"
  /\ ~FormikComponentsThrow(ast)
  /\ ast' = TransformFormikComponents(ast)
  /\ trace' = Append(trace, pc)
  /\ pc' = "transformFieldAccessPatterns"
  /\ UNCHANGED <<cli, input, flags, printed, output>>

\* the error leaves convert: nothing is printed, nothing is returned
FormikComponentsFail ==
  /\ pc = "transformFormikComponents"
  /\ FormikComponentsThrow(ast)
  /\ trace' = Append(trace, pc)
  /\ pc' = "failed"
  /\ output' = [status |-> "thrown", text |-> NoText]
  /\ UNCHANGED <<cli, input, flags, ast, printed>>

FieldAccessPatterns ==
  /\ pc = "transformFieldAccessPatterns"
  /\ ast' = TransformFieldAccessPatterns(ast)
  /\ trace' = Append(trace, pc)
  /\ pc' = "formatOutput"
  /\ UNCHANGED <<cli, input, flags, printed, output>>

Format ==
  /\ pc = "formatOutput"
  /\ printed' = FormatOutput(ast, input.comment)
  /\ trace' = Append(trace, pc)
  /\ pc' = "cleanupDuplicateImports"
  /\ UNCHANGED <<cli, input, flags, ast, output>>

Cleanup ==
  /\ pc = "cleanupDuplicateImports"
  /\ printed' = CleanupDuplicateImports(printed)
  /\ trace' = Append(trace, pc)
  /\ pc' = "whitespaceCleanup"
  /\ UNCHANGED <<cli, input, flags, ast, output>>

\* fixValidationSchemaFormatting or the final replace, and the return
Return ==
  /\ pc = "whitespaceCleanup"
  /\ printed' = FinalWhitespaceCleanup(printed)
  /\ output' = [status |-> "returned", text |-> FinalWhitespaceCleanup(printed)]
  /\ trace' = Append(trace, pc)
  /\ pc' = "done"
  /\ UNCHANGED <<cli, input, flags, ast>>

(***************************************************************************)
(* The source files convert is run on                                      *)
(***************************************************************************)
SourceText(imports, body, comment, layout) ==
  [imports |-> imports \o body.libs, stmts |-> body.stmts, jsx |-> body.jsx,
   comment |-> comment, layout |-> layout]

Body(libs, stmts, jsx) == [libs |-> libs, stmts |-> stmts, jsx |-> jsx]

\* const [...] = useField(arg)
UseFieldDecl(shape, props, argType, argVal) ==
  [BaseStmt EXCEPT !.kind = "decl", !.idType = "ArrayPattern", !.shape = shape,
                   !.props = props, !.init = Call("useField", "", argType, argVal, FALSE, NoOpts)]

\* <Formik initialValues={{...}} onSubmit={...}>{children}</Formik> around one form
FormikJsx(shape, formTag, elements) ==
  [EmptyJsx EXCEPT !.formik = shape, !.initialValues = "object", !.formTag = formTag,
                   !.onSubmit = "handler", !.elements = elements]

EmailInput == Element("input", TRUE, <<Attr("id", "str", "email"), Attr("type", "str", "email")>>)

\* the component bodies of the files whose imports vary
PlainBody ==
  Body(<<>>, <<Other({"useState"}, {"useState"}, {})>>,
       [EmptyJsx EXCEPT !.formTag = "form", !.onSubmit = "handler",
                        !.elements = <<Element("input", FALSE, <<Attr("id", "str", "q")>>)>>])
FormikBody == Body(<<>>, <<>>, FormikJsx("fnJSX", "form", <<EmailInput>>))
FormikFormBody == Body(<<>>, <<>>, FormikJsx("fnBlockJSX", "Form", <<EmailInput>>))
FormikYupBody ==
  Body(<<ImportDecl("yup", "double", <<>>)>>, <<>>,
       [FormikJsx("fnJSX", "form", <<EmailInput>>) EXCEPT !.validationSchema = TRUE])
UseFieldBody ==
  Body(<<>>,
       <<UseFieldDecl("three", <<"setValue">>, "StringLiteral", "name"),
         Other({"setValue"}, {"setValue"}, {"setValue"})>>,
       [EmptyJsx EXCEPT !.elements = <<Element("input", FALSE, <<Spread(Ident("field"))>>)>>])
ContextBody ==
  Body(<<>>,
       <<ObjectDecl(<<"setFieldValue">>, HookCall("useFormikContext")),
         Other({"setFieldValue"}, {"setFieldValue"}, {"setFieldValue"})>>,
       EmptyJsx)

Bodies == {PlainBody, FormikBody, FormikFormBody, FormikYupBody, UseFieldBody, ContextBody}

\* how the file imports formik, if it does
FormikImportChoices ==
  {<<>>,
   <<ImportDecl(FORMIK, "double", <<Named("Formik")>>)>>,
   <<ImportDecl(FORMIK, "single", <<Named("Formik")>>)>>,
   <<ImportDecl(FORMIK, "double", <<Named("useField")>>)>>,
   <<ImportDecl(FORMIK, "single", <<Specifier("useField", "useFormikField")>>)>>,
   <<ImportDecl(FORMIK, "double", <<Named("useFormikContext")>>)>>}

\* the @conform-to/react imports a file may already hold: at most MaxExistingConform
MaxExistingConform == 2
ConformDeclChoices ==
  {ImportDecl(CONFORM, "double", <<Named("FormProvider")>>),
   ImportDecl(CONFORM, "double", <<Named("useForm")>>),
   ImportDecl(CONFORM, "double", <<Named("getInputProps"), Named("getFormProps")>>)}
ExistingConformChoices ==
  UNION {[1..n -> ConformDeclChoices] : n \in 0..MaxExistingConform}
  \cup {<<ImportDecl("react", "double", <<Named("useState")>>)>>}

CommentChoices == SUBSET {"from \"formik\"", "useFormikContext"}
LayoutChoices == {"source", "pretty"}

ImportInputs ==
  {SourceText(f \o c, b, m, l) :
     f \in FormikImportChoices, c \in ExistingConformChoices, b \in Bodies,
     m \in CommentChoices, l \in LayoutChoices}

\* files built around the context hook: what const { ... } = useFormikContext()
\* destructures, what the rest of the function names, and whether its JSX spreads
\* getFieldProps(...)
Capabilities == <<"values", "setFieldValue", "setFieldTouched", "isSubmitting", "getFieldProps">>
PatternOf(S) == SelectSeq(Capabilities, LAMBDA n : n \in S)

ContextImport == <<ImportDecl(FORMIK, "double", <<Named("useFormikContext")>>)>>

FieldPropsInput ==
  Element("input", FALSE,
          <<Attr("type", "str", "email"), Spread(FieldPropsCall("StringLiteral", "email"))>>)

ContextJsxChoices ==
  {EmptyJsx, [EmptyJsx EXCEPT !.elements = <<FieldPropsInput>>]}

BodyRefChoices == SUBSET {"setFieldValue", "isSubmitting", "update"}

\* the statement after the destructure: it names refs and awaits its setFieldValue call
UsingStmt(refs) ==
  Other(refs, refs \cap {"setFieldValue", "update"}, refs \cap {"setFieldValue"})

ContextInputs ==
  {SourceText(ContextImport,
              Body(<<>>, <<ObjectDecl(PatternOf(S), HookCall("useFormikContext")),
                           UsingStmt(refs)>>, jsx),
              {}, "source") :
     S \in SUBSET Range(Capabilities), refs \in BodyRefChoices, jsx \in ContextJsxChoices}

\* two destructures in one function, and a hook result kept whole
TwoPatternChoices == {<<"setFieldValue">>, <<"values">>, <<"isSubmitting", "setFieldValue">>}

TwoContextInputs ==
  {SourceText(ContextImport,
              Body(<<>>, <<ObjectDecl(p, HookCall("useFormikContext")),
                           ObjectDecl(q, HookCall("useFormikContext"))>>, EmptyJsx),
              {}, "source") :
     p \in TwoPatternChoices, q \in TwoPatternChoices}
  \cup {SourceText(ContextImport,
                   Body(<<>>, <<IdentDecl("formik", HookCall("useFormikContext"), ""),
                                UsingStmt({"formik"})>>, EmptyJsx),
                   {}, "source")}

\* a destructure that also takes state of the hook outside the five capabilities
\* the rewrite knows, which the rest of the function goes on to read
OtherStateChoices == {"errors", "touched"}
OtherStateInputs ==
  {SourceText(ContextImport,
              Body(<<>>, <<ObjectDecl(PatternOf(S) \o <<other>>, HookCall("useFormikContext")),
                           UsingStmt(S \cup {other})>>, EmptyJsx),
              {}, "source") :
     S \in SUBSET {"values", "isSubmitting"}, other \in OtherStateChoices}

\* files built around <Formik>: one element of each shape of name and id, with and
\* without the attributes the rewrite strips, inside and outside the form
AttrShapeChoices == {"absent", "none", "str", "expr"}
AttrOfShape(name, shape, val) ==
  IF shape = "absent" THEN <<>> ELSE <<Attr(name, shape, IF shape = "none" THEN "" ELSE val)>>

ExtraAttrChoices ==
  {<<>>,
   <<Attr("onChange", "expr", "handleChange"), Attr("onBlur", "expr", "handleBlur"),
     Attr("value", "expr", "values.email")>>,
   <<Attr("onClick", "expr", "handleBlur")>>,
   <<Attr("type", "str", "email"), Attr("placeholder", "str", "you@example.com")>>,
   <<Attr("className", "str", "wide"), Attr("required", "none", "")>>}

FormikImport == <<ImportDecl(FORMIK, "double", <<Named("Formik"), Named("Field")>>)>>

ElementInputs ==
  {SourceText(FormikImport,
              Body(<<>>, <<>>,
                   FormikJsx("fnJSX", "form",
                             <<Element(tag, inForm,
                                       AttrOfShape("name", n, "email")
                                       \o AttrOfShape("id", i, "emailId") \o x)>>)),
              {}, "source") :
     tag \in {"input", "Field"}, inForm \in BOOLEAN,
     n \in AttrShapeChoices, i \in AttrShapeChoices, x \in ExtraAttrChoices}

\* files whose <Formik> has each shape of children, under both spellings of the import
ChildrenInputs ==
  {SourceText(<<ImportDecl(FORMIK, q, <<Named("Formik")>>)>>,
              Body(<<>>, <<>>, FormikJsx(shape, "form", <<EmailInput>>)),
              {}, "source") :
     q \in {"double", "single"}, shape \in ChildrenShapes}

\* files whose form holds one element with each way of writing as, disabled, type
\* and placeholder, and no name or id
AsChoices ==
  {<<>>, <<Attr("as", "none", "")>>, <<Attr("as", "str", "textarea")>>,
   <<Attr("as", "ident", "CustomInput")>>, <<Attr("as", "expr", "styled.input")>>}
DisabledChoices ==
  {<<>>, <<Attr("disabled", "none", "")>>, <<Attr("disabled", "str", "true")>>,
   <<Attr("disabled", "str", "false")>>, <<Attr("disabled", "expr", "isSubmitting")>>}
TypeChoices == {<<>>, <<Attr("type", "str", "email")>>, <<Attr("type", "expr", "fieldType")>>}
PlaceholderChoices == {<<>>, <<Attr("placeholder", "str", "x")>>}

OptionInputs ==
  {SourceText(FormikImport,
              Body(<<>>, <<>>,
                   FormikJsx("fnJSX", "form", <<Element(tag, TRUE, a \o t \o p \o d)>>)),
              {}, "source") :
     tag \in {"input", "Field"}, a \in AsChoices, t \in TypeChoices,
     p \in PlaceholderChoices, d \in DisabledChoices}

\* files built around const [{ value }, , { ... }] = useField(arg): what the third
\* slot names, what the function calls, and how the field is named
UseFieldImport == <<ImportDecl(FORMIK, "double", <<Named("useField")>>)>>
HelperSlotChoices == {<<"setValue">>, <<"setValue", "setTouched">>, <<"setTouched">>}
FieldArgChoices ==
  {[argType |-> "StringLiteral", argVal |-> "email"],
   [argType |-> "Identifier", argVal |-> "fieldName"],
   [argType |-> "MemberExpression", argVal |-> "props.name"],
   [argType |-> "none", argVal |-> ""]}

\* the rest of the function: it calls `calls` and hands `passed` on uncalled
HookUsingStmt(calls, passed) == Other(calls \cup passed, calls, calls)

\* the statements before the destructure, which stands in the body or in a block of it
LeadingStmtChoices == {<<>>, <<Other({"useId"}, {"useId"}, {})>>}

UseFieldInputs ==
  {SourceText(UseFieldImport,
              Body(<<>>,
                   before
                   \o <<[UseFieldDecl("three", slot, arg.argType, arg.argVal)
                           EXCEPT !.nested = nested],
                        HookUsingStmt(calls, passed)>>, EmptyJsx),
              {}, "source") :
     slot \in HelperSlotChoices, arg \in FieldArgChoices,
     calls \in SUBSET {"setValue", "setTouched"}, passed \in SUBSET {"setTouched"},
     before \in LeadingStmtChoices, nested \in BOOLEAN}

\* files whose <Formik> stands in a block-bodied or an expression-bodied component
\* and is given each kind of initialValues, with or without a validationSchema
InitialValuesChoices == {"object", "ident", "call", "string", "none"}
ComponentStmtChoices == {<<>>, <<Other({"useState"}, {"useState"}, {})>>}
FormikPropInputs ==
  {SourceText(FormikImport,
              Body(<<>>, IF c = "block" THEN st ELSE <<>>,
                   [FormikJsx(shape, "form", <<EmailInput>>) EXCEPT
                      !.initialValues = iv, !.validationSchema = vs, !.component = c]),
              {}, "source") :
     c \in {"block", "expression"}, st \in ComponentStmtChoices,
     iv \in InitialValuesChoices, vs \in BOOLEAN, shape \in {"fnJSX", "fnBlockJSX"}}

\* files that reach the field-access normalizer with getFieldProps declarations,
\* calls given fields.x in either notation, and accesses written elsewhere
FieldArgKinds ==
  {[argType |-> "StringLiteral", argVal |-> "email"], [argType |-> "Identifier", argVal |-> "name"],
   [argType |-> "NumericLiteral", argVal |-> "0"], [argType |-> "TemplateLiteral", argVal |-> "email"],
   [argType |-> "none", argVal |-> ""]}
FieldsCallChoices ==
  {Call(callee, "fields", "Identifier", "email", computed, TextOpts) :
     callee \in {"getInputProps", "getTextareaProps"}, computed \in BOOLEAN}
NormalizerInputs ==
  {SourceText(FormikImport,
              Body(<<>>,
                   <<IdentDecl("emailProps", FieldPropsCall(arg.argType, arg.argVal), member),
                     IdentDecl("props", call, "")>>,
                   [EmptyJsx EXCEPT !.elements = <<Element("input", FALSE, <<Spread(spread)>>)>>,
                                    !.dots = dots, !.keys = keys]),
              {}, "source") :
     arg \in FieldArgKinds, member \in {"", "value"}, call \in FieldsCallChoices,
     spread \in FieldsCallChoices, dots \in SUBSET {"email", "name"}, keys \in SUBSET {"email"}}

\* files whose input spreads getFieldProps(arg) of the context hook, for each kind of
\* argument, beside each way of writing the type attribute, before or after the spread
SpreadArgKinds ==
  {[argType |-> "StringLiteral", argVal |-> "email"], [argType |-> "Identifier", argVal |-> "name"],
   [argType |-> "TemplateLiteral", argVal |-> "email"], [argType |-> "none", argVal |-> ""]}
SpreadTypeChoices ==
  {<<>>, <<Attr("type", "str", "email")>>, <<Attr("type", "expr", "inputType")>>,
   <<Attr("type", "none", "")>>}
JsxSpreadInputs ==
  {SourceText(ContextImport,
              Body(<<>>, <<ObjectDecl(<<"getFieldProps">>, HookCall("useFormikContext"))>>,
                   [EmptyJsx EXCEPT !.elements =
                      <<Element("input", FALSE,
                                IF typeFirst
                                THEN t \o <<Spread(FieldPropsCall(arg.argType, arg.argVal))>> \o x
                                ELSE <<Spread(FieldPropsCall(arg.argType, arg.argVal))>> \o t \o x)>>]),
              {}, "source") :
     arg \in SpreadArgKinds, t \in SpreadTypeChoices, typeFirst \in BOOLEAN,
     x \in {<<>>, <<Attr("className", "str", "wide")>>}}

\* files whose form holds, beside its input, another component of the formik module
\* or a plain element
MessageTagChoices == {"ErrorMessage", "span"}
LibraryElementInputs ==
  {SourceText(<<ImportDecl(FORMIK, "double", <<Named("Formik"), Named("ErrorMessage")>>)>>,
              Body(<<>>, <<>>,
                   FormikJsx(shape, "form",
                             <<EmailInput, Element(tag, TRUE, <<Attr("name", "str", "email")>>)>>)),
              {}, "source") :
     shape \in {"fnJSX", "fnBlockJSX"}, tag \in MessageTagChoices}

Inputs == ImportInputs \cup ContextInputs \cup TwoContextInputs \cup ElementInputs
          \cup ChildrenInputs \cup OptionInputs \cup UseFieldInputs
          \cup FormikPropInputs \cup NormalizerInputs \cup JsxSpreadInputs
          \cup LibraryElementInputs \cup OtherStateInputs

Init ==
  /\ input \in Inputs
  /\ pc = "start"
  /\ flags = NoFlags
  /\ ast = NoTree
  /\ trace = <<>>
  /\ printed = NoText
  /\ output = NoOutput
  /\ cli = NoCli

Next ==
  \/ BailOut
  \/ Parse
  \/ ContextUsage
  \/ RemoveImports
  \/ AddImports
  \/ UseFieldPasses
  \/ FormComponents
  \/ FormikComponents
  \/ FormikComponentsFail
  \/ FieldAccessPatterns
  \/ Format
  \/ Cleanup
  \/ Return

Spec == Init /\ [][Next]_vars

(***************************************************************************)
(* The command line: main, processDirectory and processFile                *)
(***************************************************************************)
\* a directory entry as readdirSync(..., { withFileTypes: true }) gives it
\*   kind: "dir" (isDirectory), "file" (isFile), "other" (a symbolic link, a socket...)
\*   ext: what follows the last dot of the name
\*   outcome: what happens when the file is processed: "ok", "readFails" (readFileSync
\*            throws), "convertFails" (convert rejects), "writeFails" (writeFileSync throws)
Entry(name, kind, ext, outcome) == [name |-> name, kind |-> kind, ext |-> ext, outcome |-> outcome]
Dir(name) == Entry(name, "dir", "", "ok")

\* TSX_JSX_REGEX = /\.(tsx|jsx)$/
MatchesTsxJsx(entry) == entry.ext \in {"tsx", "jsx"}

\* the frame of one call of processDirectory: its path, the entries it read (once it
\* has read them) and the entry its loop is at
Frame(dir, path) == [dir |-> dir, path |-> path, listed |-> FALSE, entries |-> <<>>, idx |-> 1]
Top(stack) == stack[Len(stack)]
Pop(stack) == SubSeq(stack, 1, Len(stack) - 1)
Advance(stack) == [stack EXCEPT ![Len(stack)].idx = @ + 1]
Line(kind, path) == [kind |-> kind, path |-> path]

CliRunning == cli.phase = "walking" /\ cli.stack # <<>>
AtEntry == CliRunning /\ Top(cli.stack).listed /\ Top(cli.stack).idx <= Len(Top(cli.stack).entries)
CurrentEntry == Top(cli.stack).entries[Top(cli.stack).idx]
CurrentPath == Append(Top(cli.stack).path, CurrentEntry.name)

\* main: no argument, or a target that does not exist: an error line and exit code 1
MainRejects ==
  /\ cli.phase = "start"
  /\ cli.target \in {"none", "missing"}
  /\ cli' = [cli EXCEPT !.phase = "exit1", !.log = Append(@, Line("usage", <<>>))]
  /\ UNCHANGED <<input, pc, flags, ast, trace, printed, output>>

\* main: the target exists: processDirectory(targetDir)
MainStarts ==
  /\ cli.phase = "start"
  /\ cli.target = "dir"
  /\ cli' = [cli EXCEPT !.phase = "walking", !.stack = <<Frame("root", <<>>)>>,
                        !.log = Append(@, Line("start", <<>>))]
  /\ UNCHANGED <<input, pc, flags, ast, trace, printed, output>>

\* processDirectory: readdirSync succeeds
ReadDirectory ==
  /\ CliRunning /\ ~Top(cli.stack).listed
  /\ cli.listable[Top(cli.stack).dir]
  /\ cli' = [cli EXCEPT !.stack[Len(cli.stack)] =
                          [@ EXCEPT !.listed = TRUE, !.entries = cli.fs[Top(cli.stack).dir]]]
  /\ UNCHANGED <<input, pc, flags, ast, trace, printed, output>>

\* processDirectory: readdirSync throws; the catch logs and the call returns
ReadDirectoryFails ==
  /\ CliRunning /\ ~Top(cli.stack).listed
  /\ ~cli.listable[Top(cli.stack).dir]
  /\ cli' = [cli EXCEPT !.stack = Pop(@),
                        !.log = Append(@, Line("directoryError", Top(cli.stack).path))]
  /\ UNCHANGED <<input, pc, flags, ast, trace, printed, output>>

\* the loop meets a directory: await processDirectory(entryPath)
EnterDirectory ==
  /\ AtEntry /\ CurrentEntry.kind = "dir"
  /\ cli' = [cli EXCEPT !.stack = Append(Advance(@), Frame(CurrentEntry.name, CurrentPath))]
  /\ UNCHANGED <<input, pc, flags, ast, trace, printed, output>>

\* the loop meets an entry that is neither a directory nor a file
SkipEntry ==
  /\ AtEntry /\ CurrentEntry.kind = "other"
  /\ cli' = [cli EXCEPT !.stack = Advance(@)]
  /\ UNCHANGED <<input, pc, flags, ast, trace, printed, output>>

\* the variant without the catch: the error reaches the catch of processDirectory,
\* which gives up the rest of the directory
ProcessFileRethrows(stack) == Pop(stack)

\* what processFile leaves of the walk when reading, converting or writing throws:
\* its catch logs the error and the call returns normally
ProcessFileCatch(stack) == stack

\* the variant whose write stands in a finally: it also runs when convert threw
WriteInFinally(written, path, outcome) ==
  IF outcome \in {"ok", "convertFails"} THEN Append(written, path) ELSE written

\* fs.writeFileSync(filePath, transformed) stands after the read and after
\* await convert(content) in the try block: it overwrites the file only when both
\* returned, and a write that throws leaves the file as it was
WriteAfterConvert(written, path, outcome) ==
  IF outcome = "ok" THEN Append(written, path) ELSE written

\* the loop meets a file: await processFile(entryPath), the whole of it
\* (attempted: "Processing ..." was logged; converted: convert was called;
\* written: the file was overwritten)
ProcessFile ==
  /\ AtEntry /\ CurrentEntry.kind = "file"
  /\ LET e == CurrentEntry
         path == CurrentPath
     IN IF ~MatchesTsxJsx(e)
        THEN cli' = [cli EXCEPT !.stack = Advance(@)]
        ELSE IF e.outcome = "ok"
        THEN cli' = [cli EXCEPT !.stack = Advance(@),
                                !.attempted = Append(@, path),
                                !.converted = Append(@, path),
                                !.written = WriteAfterConvert(@, path, e.outcome),
                                !.log = @ \o <<Line("processing", path), Line("converted", path)>>]
        ELSE cli' = [cli EXCEPT !.stack = ProcessFileCatch(Advance(@)),
                                !.attempted = Append(@, path),
                                !.converted = IF e.outcome = "readFails" THEN @
                                              ELSE Append(@, path),
                                !.written = WriteAfterConvert(@, path, e.outcome),
                                !.log = @ \o <<Line("processing", path), Line("error", path)>>]
  /\ UNCHANGED <<input, pc, flags, ast, trace, printed, output>>

\* the loop of processDirectory is over: the call returns
LeaveDirectory ==
  /\ CliRunning /\ Top(cli.stack).listed
  /\ Top(cli.stack).idx > Len(Top(cli.stack).entries)
  /\ cli' = [cli EXCEPT !.stack = Pop(@)]
  /\ UNCHANGED <<input, pc, flags, ast, trace, printed, output>>

\* main: processDirectory has returned: "Conversion complete!"
Complete ==
  /\ cli.phase = "walking" /\ cli.stack = <<>>
  /\ cli' = [cli EXCEPT !.phase = "done", !.log = Append(@, Line("complete", <<>>))]
  /\ UNCHANGED <<input, pc, flags, ast, trace, printed, output>>

\* the directory trees of the runs: a file in the root, a directory with a file and
\* a deeper directory, a symbolic link and a last file; every file with each
\* extension and each outcome, every directory listable or not
FileChoices(name) ==
  {Entry(name, "file", "md", "ok")}
  \cup {Entry(name, "file", ext, o) :
          ext \in {"tsx", "jsx"}, o \in {"ok", "readFails", "convertFails", "writeFails"}}
FewFileChoices(name) ==
  {Entry(name, "file", "ts", "ok"), Entry(name, "file", "tsx", "ok"),
   Entry(name, "file", "jsx", "convertFails")}
DirNames == {"root", "sub", "deep"}
Trees ==
  {[root |-> <<a, Dir("sub"), Entry("Link", "other", "tsx", "ok"), d>>,
    sub |-> <<b, Dir("deep")>>,
    deep |-> <<c>>] :
     a \in FileChoices("App"), b \in FileChoices("Form"),
     c \in FewFileChoices("Field"), d \in FewFileChoices("index")}
CandidatePaths == {<<"App">>, <<"sub", "Form">>, <<"sub", "deep", "Field">>, <<"index">>}

InitCLI ==
  /\ input = NoText /\ pc = "idle" /\ flags = NoFlags /\ ast = NoTree
  /\ trace = <<>> /\ printed = NoText /\ output = NoOutput
  /\ \E target \in {"none", "missing", "dir"}, fs \in Trees, listable \in [DirNames -> BOOLEAN] :
        /\ target # "dir" => (\A n \in DirNames : listable[n])
        /\ cli = [NoCli EXCEPT !.target = target, !.fs = fs, !.listable = listable,
                               !.phase = "start"]

NextCLI ==
  \/ MainRejects
  \/ MainStarts
  \/ ReadDirectory
  \/ ReadDirectoryFails
  \/ EnterDirectory
  \/ SkipEntry
  \/ ProcessFile
  \/ LeaveDirectory
  \/ Complete

\* main runs as one chain of awaited calls on the event loop: every step that can
\* be taken is taken
SpecCLI == InitCLI /\ [][NextCLI]_vars /\ WF_vars(NextCLI)

(***************************************************************************)
(* Properties of convert                                                   *)
(***************************************************************************)
\* the text names the formik module (in either spelling, or in a comment) or the
\* context hook
RefersToFormik(text) ==
  \/ \E d \in Range(text.imports) : d.source = FORMIK
  \/ text.comment # {}
  \/ "useFormikContext" \in TextIdentifiers(text)

\* C1: a text that names neither the formik module nor useFormikContext is returned
\* as it is, byte for byte, and convert never parses it nor runs any pass on it
C1_UnrelatedInputReturnedUnchanged ==
  (~RefersToFormik(input) /\ pc # "start") =>
     /\ pc = "done"
     /\ output = [status |-> "returned", text |-> input]
     /\ trace = <<>> /\ ast = NoTree /\ flags = NoFlags /\ printed = NoText

\* an unrelated file in the author's own layout has come back untouched
C1_Witness ==
  /\ ~RefersToFormik(input) /\ input.layout = "source"
  /\ pc = "done" /\ output.status = "returned" /\ output.text = input

ExpectedPasses(text) ==
  SelectSeq(PassOrder,
            LAMBDA p : /\ (p = "transformFormikContextUsage" =>
                             TextIncludesUseFormikContext(text))
                       /\ (p = "transformUseField" => HasUseFieldImport(text.imports)))

\* C3: past the prefilter the passes run are always a prefix of the fixed order (so
\* none runs twice and none runs out of turn), the context pass and the per-field hook
\* passes are in it only under their conditions, and convert returns only after all
C3_PassesRunOnceInOrder ==
  UsesFormik(input) =>
     /\ \E n \in 0..Len(ExpectedPasses(input)) : trace = SubSeq(ExpectedPasses(input), 1, n)
     /\ (output.status = "returned" <=> trace = ExpectedPasses(input))
     /\ (pc = "done" <=> trace = ExpectedPasses(input))

\* a run through all ten passes has returned
C3_Witness == pc = "done" /\ trace = PassOrder /\ output.status = "returned"

\* C4: a <Formik> without a render-prop function returning a JSX element makes convert
\* fail; it never ends with a returned text
C4_MalformedFormikFails ==
  (HasFormik(TreeOf(input)) /\ InvalidChildrenFunction(input.jsx.formik)
   /\ pc \in {"done", "failed"}) =>
     output.status = "thrown"

HasValue(attr) == attr # NullAttr /\ attr.shape # "none"
ResolvedName(el) ==
  IF el.tag = "Field" /\ HasValue(FindAttribute(el.attrs, "name"))
  THEN FindAttribute(el.attrs, "name").val
  ELSE IF HasValue(FindAttribute(el.attrs, "id")) THEN FindAttribute(el.attrs, "id").val
  ELSE "field"

\* C5: in a well-formed render-prop form, whatever the shapes of name and id, the
\* Formik pass does not fail and each field gets its name, else its id, else "field"
\* (an attribute written without a value counts as having none)
C5_FieldNameAlwaysResolves ==
  (HasFormJSX(input.jsx.formik) /\ "transformFormikComponents" \in Range(trace)) =>
     /\ pc # "failed"
     /\ \A i \in DOMAIN input.jsx.elements :
          Selected(input.jsx.elements[i], input.jsx.elements[i].tag)
          /\ input.jsx.elements[i].tag \in {"input", "Field"}
          => ast.jsx.elements[i].attrs[1].arg.argVal = ResolvedName(input.jsx.elements[i])

\* the names a list of declarations imports from @conform-to/react, in order
ConformNames(imports) ==
  LET specs == AllSpecifiers(FindImports(imports, CONFORM))
  IN [i \in DOMAIN specs |-> specs[i].imported]

\* the conform symbols the capabilities a file exercises require
UsesContextHook(text) == "useFormikContext" \in TextIdentifiers(text)
RequiredConformNames(text) ==
  (IF HasFormik(TreeOf(text)) THEN {"useForm", "getInputProps"} ELSE {})
  \cup (IF HasUseFieldImport(text.imports) THEN {"useField", "getInputProps"} ELSE {})
  \cup (IF UsesContextHook(text) THEN {"useFormMetadata", "getInputProps"} ELSE {})

\* C6: the names the returned program imports from @conform-to/react are the required
\* ones together with those the input already imported, each of them once
C6_ConformImportsExact ==
  (output.status = "returned" /\ trace # <<>>) =>
     /\ Range(ConformNames(output.text.imports))
          = RequiredConformNames(input) \cup Range(ConformNames(input.imports))
     /\ NoDuplicates(ConformNames(output.text.imports))

OneConformImport(imports) ==
  Len(FindImports(imports, CONFORM)) <= 1 /\ NoDuplicates(ConformNames(imports))

\* C7: right after the import rewriter, and after a second run of it on its own
\* result, there is at most one @conform-to/react declaration and no name twice
C7_OneConformDeclaration ==
  (trace # <<>> /\ trace[Len(trace)] = "addConformImports") =>
     /\ OneConformImport(ast.imports)
     /\ OneConformImport(AddConformImports(ast.imports, ConformImports(flags),
                                           flags.formikImports, flags.hasValidationSchema))
     /\ (FindImports(input.imports, CONFORM) # <<>> =>
           Len(FindImports(ast.imports, CONFORM)) = Len(FindImports(input.imports, CONFORM)))

\* the context-hook destructures of a text, and the helpers a pass has synthesized
ContextDestructures(stmts) ==
  SelectSeq(stmts, LAMBDA s : s.kind = "decl" /\ s.idType = "ObjectPattern"
                              /\ s.init.callee = "useFormikContext" /\ s.member = "")
Helpers(stmts) == SelectSeq(stmts, LAMBDA s : s.kind = "helper")
HelperNames(stmts) == [i \in DOMAIN Helpers(stmts) |-> Helpers(stmts)[i].idName]

\* the capabilities of the hook a function names, in its patterns, body or JSX
CapabilitiesUsed(text) == Range(Capabilities) \cap FunctionIdentifiers(text.stmts, text.jsx)

JustAfterContextPass == trace # <<>> /\ trace[Len(trace)] = "transformFormikContextUsage"

HelperOrder == <<"values", "update", "setFieldValue", "fields", "setFieldTouched", "isSubmitting">>
CapabilityOfHelper(h) == IF h = "fields" THEN "getFieldProps" ELSE h
SelectedHelpers(text) ==
  SelectSeq(HelperOrder, LAMBDA h : h # "update" /\ CapabilityOfHelper(h) \in CapabilitiesUsed(text))

\* C9: a context-hook destructure gets exactly the helpers of the capabilities its
\* function destructures or names (update aside), in the fixed order
C9_HelpersFollowUsageProfile ==
  (JustAfterContextPass /\ Len(ContextDestructures(input.stmts)) = 1) =>
     /\ SelectSeq(HelperNames(ast.stmts), LAMBDA h : h # "update") = SelectedHelpers(input)
     /\ HelperNames(ast.stmts) = SelectSeq(HelperOrder, LAMBDA h : h \in Range(HelperNames(ast.stmts)))

RewrittenAttrsOk(attrs) ==
  /\ \A a \in Range(attrs) :
       ~(a.type = "JSXAttribute" /\ a.name \in {"onChange", "onBlur", "onClick", "value"})
  /\ Cardinality({k \in DOMAIN attrs : attrs[k].type = "JSXSpreadAttribute"
                                        /\ attrs[k].arg.callee = "getInputProps"}) = 1
  /\ Len(attrs) >= 2
  /\ attrs[1].type = "JSXSpreadAttribute" /\ attrs[1].arg.callee = "getInputProps"
  /\ attrs[2].type = "JSXAttribute" /\ attrs[2].name = "id"

InFormField(el) == el.inForm /\ el.tag \in {"input", "Field"}

\* C10: once the Formik pass has run, every input or Field that stood in the
\* render-prop form has the getInputProps spread first, id second, and nothing else
C10_FormFieldsRewritten ==
  (HasFormik(TreeOf(input)) /\ "transformFormikComponents" \in Range(trace) /\ pc # "failed") =>
     \A i \in DOMAIN input.jsx.elements :
        InFormField(input.jsx.elements[i]) => RewrittenAttrsOk(ast.jsx.elements[i].attrs)

C10_Witness ==
  /\ pc = "transformFieldAccessPatterns"
  /\ \E i \in DOMAIN input.jsx.elements :
       /\ InFormField(input.jsx.elements[i])
       /\ FindAttribute(input.jsx.elements[i].attrs, "onClick") # NullAttr
       /\ RewrittenAttrsOk(ast.jsx.elements[i].attrs)

\* the options of the getInputProps call an element of the form has been given
FormikPassDone == "transformFormikComponents" \in Range(trace) /\ pc # "failed"
OptionsOf(i) == ast.jsx.elements[i].attrs[1].arg.opts
FormFieldIndices ==
  {i \in DOMAIN input.jsx.elements :
     HasFormik(TreeOf(input)) /\ InFormField(input.jsx.elements[i])}

\* the value an attribute holds as the options should carry it
CarriedValue(attr) == IF attr.shape = "str" THEN Str(attr.val) ELSE ExprNode(attr.val)

\* C11: the options carry the element's attributes: type is the type attribute's
\* value or "text" without one, placeholder is there exactly when the attribute is,
\* a disabled attribute written without a value gives disabled: true, and an element
\* without name and id gets the fallback id
C11_OptionsCarryAttributes ==
  FormikPassDone =>
    \A i \in FormFieldIndices :
       LET attrs == input.jsx.elements[i].attrs
           typeAttr == FindAttribute(attrs, "type")
           placeholderAttr == FindAttribute(attrs, "placeholder")
           disabledAttr == FindAttribute(attrs, "disabled")
       IN /\ OptionsOf(i).type = IF HasValue(typeAttr) THEN CarriedValue(typeAttr)
                                  ELSE Str("text")
          /\ (OptionsOf(i).placeholder # Undef <=> placeholderAttr # NullAttr)
          /\ (HasValue(placeholderAttr) => OptionsOf(i).placeholder = CarriedValue(placeholderAttr))
          /\ (disabledAttr # NullAttr /\ disabledAttr.shape = "none"
                => OptionsOf(i).disabled = Bool(TRUE))
          /\ (FindAttribute(attrs, "id") = NullAttr /\ FindAttribute(attrs, "name") = NullAttr
                => ast.jsx.elements[i].attrs[2] = Attr("id", "str", "field"))

\* the tag the replacement of a Field should have
TagForAs(el) ==
  LET asAttr == FindAttribute(el.attrs, "as")
  IN IF asAttr # NullAttr /\ asAttr.shape \in {"ident", "str"} THEN asAttr.val ELSE "input"

\* C12: a Field of the form is replaced by an element named after its as prop when
\* that is an identifier or a string, by an input otherwise, without any error; a
\* plain input keeps its tag
C12_FieldTagFollowsAs ==
  (HasFormJSX(input.jsx.formik) /\ "transformFormikComponents" \in Range(trace)) =>
     /\ pc # "failed"
     /\ \A i \in FormFieldIndices :
          ast.jsx.elements[i].tag = IF input.jsx.elements[i].tag = "Field"
                                    THEN TagForAs(input.jsx.elements[i])
                                    ELSE "input"

\* C20: disabled="true" and disabled="false" reach the options as the booleans true
\* and false, and disabled={expr} as that expression
C20_DisabledCoerced ==
  FormikPassDone =>
    \A i \in FormFieldIndices :
       LET disabledAttr == FindAttribute(input.jsx.elements[i].attrs, "disabled")
       IN /\ (disabledAttr.shape = "str" /\ disabledAttr.val \in {"true", "false"}
                => OptionsOf(i).disabled = Bool(disabledAttr.val = "true"))
          /\ (disabledAttr.shape = "expr" => OptionsOf(i).disabled = ExprNode(disabledAttr.val))

\* the matched per-field hook destructures of the file, and the state right after
\* the per-field hook pass
UseFieldDestructures(stmts) == SelectSeq(stmts, IsUseFieldDestructure)
JustAfterUseFieldPass == trace # <<>> /\ trace[Len(trace)] = "transformUseField"
TouchedStubs(stmts) ==
  SelectSeq(stmts, LAMBDA s : s.kind = "helper" /\ s.init.callee = "touchedStub")

\* C13: after the per-field hook pass a setTouched stub follows a matched destructure
\* exactly when the destructure's third slot names setTouched or the enclosing
\* function calls setTouched
C13_TouchedStubIffRequested ==
  (JustAfterUseFieldPass /\ UseFieldDestructures(input.stmts) # <<>>) =>
     LET s == UseFieldDestructures(input.stmts)[1]
     IN (TouchedStubs(ast.stmts) # <<>>
          <=> ("setTouched" \in Range(s.props)
               \/ "setTouched" \in FunctionCalls(input.stmts, input.jsx)))

\* the setValue helpers the per-field hook pass synthesized
SetValueHelpers(stmts) ==
  SelectSeq(stmts, LAMBDA s : s.kind = "helper" /\ s.init.callee = "setValue")

\* C14: the name of the synthesized form.update call denotes the field the original
\* useField call named, whatever expression the call was given: the literal for a
\* string literal, a reference to the identifier for an identifier
C14_UpdateNamesHookField ==
  (JustAfterUseFieldPass /\ UseFieldDestructures(input.stmts) # <<>>) =>
     LET s == UseFieldDestructures(input.stmts)[1]
         helpers == SetValueHelpers(ast.stmts)
     IN s.init.argType # "none" =>
          \A k \in DOMAIN helpers :
             /\ helpers[k].init.argVal = s.init.argVal
             /\ (s.init.argType = "StringLiteral" <=> helpers[k].init.argType = "StringLiteral")

\* the useForm declarations of a body
IsUseFormDecl(s) == s.kind = "helper" /\ s.init.callee = "useForm"
UseFormDecls(stmts) == SelectSeq(stmts, IsUseFormDecl)
FormikReplaced ==
  HasFormJSX(input.jsx.formik) /\ FormikPassDone /\ HasFormik(TreeOf(input))

\* C15: once the Formik element has been replaced by its form, the first statement
\* of the enclosing component is the declaration const [form, fields] = useForm(...)
C15_UseFormDeclaredFirst ==
  FormikReplaced => (ast.stmts # <<>> /\ IsUseFormDecl(ast.stmts[1]))

\* C16: the defaultValue of the synthesized useForm call is the expression the
\* Formik element was given as initialValues, whatever kind of expression it is
C16_DefaultValueIsInitialValues ==
  (FormikReplaced /\ input.jsx.initialValues \in {"object", "ident", "call"}) =>
     \A k \in DOMAIN UseFormDecls(ast.stmts) :
        UseFormDecls(ast.stmts)[k].init.argVal = input.jsx.initialValues

\* the calls written in a body: the initializers of its declarations and the
\* arguments of its spread attributes
CallsOf(stmts, jsx) ==
  {s.init : s \in Range(stmts)}
  \cup {a.arg : a \in UNION {Range(el.attrs) : el \in Range(jsx.elements)}}

\* fields.x written in dot notation, as a call argument or elsewhere
DotAccesses(stmts, jsx) ==
  {c.argVal : c \in {d \in CallsOf(stmts, jsx) :
                       d.obj = "fields" /\ d.argType # "none" /\ ~d.computed}}
  \cup jsx.dots

NormalizerDone == "transformFieldAccessPatterns" \in Range(trace)

\* C17: on the tree of every stage of the conversion, running the field-access
\* normalizer twice gives the same tree as running it once
C17_NormalizerIdempotent ==
  ast # NoTree =>
    TransformFieldAccessPatterns(TransformFieldAccessPatterns(ast))
      = TransformFieldAccessPatterns(ast)

\* a tree the normalizer has just rewritten in all three ways, and leaves alone now
C17_Witness ==
  /\ trace # <<>> /\ trace[Len(trace)] = "transformFieldAccessPatterns"
  /\ input.jsx.dots # {}
  /\ \E i \in DOMAIN input.stmts :
        /\ input.stmts[i].init.callee = "getFieldProps"
        /\ ast.stmts[i].init.callee = "getInputProps"
  /\ \E c \in CallsOf(input.stmts, input.jsx) : NormalizeCall(c) # c
  /\ TransformFieldAccessPatterns(ast) = ast

RECURSIVE FilesUnder(_, _, _, _)
FilesUnder(fs, listable, dir, prefix) ==
  IF ~listable[dir] THEN {}
  ELSE UNION {LET e == fs[dir][i]
              IN IF e.kind = "dir"
                 THEN FilesUnder(fs, listable, e.name, Append(prefix, e.name))
                 ELSE IF e.kind = "file" /\ MatchesTsxJsx(e)
                 THEN {Append(prefix, e.name)}
                 ELSE {} : i \in DOMAIN fs[dir]}

AllListable == [n \in DirNames |-> TRUE]
Attempted(path) == path \in Range(cli.attempted)
TimesAttempted(path) == Cardinality({i \in DOMAIN cli.attempted : cli.attempted[i] = path})

\* every attempt that did not end in a written file left an error line
FailuresLogged ==
  \A p \in Range(cli.attempted) :
     p \in Range(cli.written) \/ Line("error", p) \in Range(cli.log)

\* C19: given an existing directory, every file under it whose name ends in .tsx or
\* .jsx is eventually attempted, at any depth and whatever failed before
C19_EveryFileAttempted ==
  \A p \in CandidatePaths :
     (cli.target = "dir" /\ p \in FilesUnder(cli.fs, AllListable, "root", <<>>))
       ~> Attempted(p)

\* C19, amended: given an existing directory, every file whose name ends in .tsx or
\* .jsx and that lies under it in directories that can all be listed is eventually
\* attempted, at any depth; no file is attempted twice; every failure is logged
C19_EveryListedFileAttemptedOnce ==
  /\ [](\A p \in CandidatePaths : TimesAttempted(p) <= 1)
  /\ []FailuresLogged
  /\ [](\A p \in Range(cli.attempted) :
          cli.target = "dir" /\ p \in FilesUnder(cli.fs, cli.listable, "root", <<>>))
  /\ \A p \in CandidatePaths :
        (cli.target = "dir" /\ p \in FilesUnder(cli.fs, cli.listable, "root", <<>>))
          ~> Attempted(p)

\* a finished run in which the first file failed to convert, the next failed to be
\* read, and the files after them, three directories deep and back in the root,
\* were attempted all the same
C19_Witness ==
  /\ cli.phase = "done"
  /\ cli.fs.root[1].outcome = "convertFails" /\ cli.fs.sub[1].outcome = "readFails"
  /\ cli.attempted = <<<<"App">>, <<"sub", "Form">>, <<"sub", "deep", "Field">>, <<"index">>>>
  /\ Line("error", <<"App">>) \in Range(cli.log)
  /\ Line("error", <<"sub", "Form">>) \in Range(cli.log)
  /\ <<"index">> \in Range(cli.written)

\* the index of the first matched per-field hook destructure of the file
UseFieldDestructureAt ==
  FindIndex({i \in DOMAIN input.stmts : IsUseFieldDestructure(input.stmts[i])})
IsHelperOf(s, name, body) == s.kind = "helper" /\ s.idName = name /\ s.init.callee = body

\* C21: after the per-field hook pass, a destructure that was rewritten to
\* [field, form] is followed at once by the value and setValue declarations, and the
\* setTouched stub, when there is one, comes right after them
C21_DeclarationsFollowDestructure ==
  (JustAfterUseFieldPass /\ UseFieldDestructureAt # 0) =>
     LET k == UseFieldDestructureAt
     IN ast.stmts[k].shape = "fieldForm" =>
          /\ Len(ast.stmts) >= k + 2
          /\ IsHelperOf(ast.stmts[k + 1], "value", "field.value")
          /\ IsHelperOf(ast.stmts[k + 2], "setValue", "setValue")
          /\ TouchedStubs(ast.stmts) # <<>> =>
               /\ Len(ast.stmts) >= k + 3
               /\ IsHelperOf(ast.stmts[k + 3], "setTouched", "touchedStub")

\* the setter calls a body still awaits
AwaitedSetters(stmts) == UNION {s.awaits : s \in Range(stmts)} \cap SetterNames
HookDestructureRewritten ==
  \/ "transformUseField" \in Range(trace) /\ UseFieldDestructures(input.stmts) # <<>>
  \/ "transformFormikContextUsage" \in Range(trace) /\ ContextDestructures(input.stmts) # <<>>

\* C22: once the per-field hook pass or the context-hook pass has rewritten a
\* destructure, the enclosing function awaits no call of setValue, setTouched,
\* setFieldValue or setFieldTouched any more, in the tree and in the returned text
C22_NoAwaitedSetterCalls ==
  HookDestructureRewritten =>
    /\ AwaitedSetters(ast.stmts) = {}
    /\ output.status = "returned" => AwaitedSetters(output.text.stmts) = {}

\* a per-field hook file that awaited setValue and setTouched, returned without awaits
C22_Witness ==
  /\ output.status = "returned"
  /\ UseFieldDestructures(input.stmts) # <<>>
  /\ AwaitedSetters(input.stmts) = {"setValue", "setTouched"}
  /\ "transformUseField" \in Range(trace)
  /\ AwaitedSetters(output.text.stmts) = {}

\* the helper list of the one context-hook destructure of a file
IsUpdateHelper(s) == IsHelperOf(s, "update", "form.update")
UpdateListConsistent(list) ==
  /\ \A i \in DOMAIN list :
        IsHelperOf(list[i], "setFieldValue", "viaUpdate") =>
          \E k \in 1..(i - 1) : IsUpdateHelper(list[k])
  /\ \A k \in DOMAIN list :
        IsUpdateHelper(list[k]) =>
          \E i \in (k + 1)..Len(list) : IsHelperOf(list[i], "setFieldValue", "viaUpdate")
  /\ \A i \in DOMAIN list :
        list[i].idName = "setFieldValue" =>
          list[i].init.callee \in {"viaUpdate", "direct"}

\* C23: in the helper list of a context-hook destructure, setFieldValue calls the
\* bare update only after a const update = form.update of the same list, and calls
\* form.update itself otherwise; update is never declared without such a setFieldValue
C23_UpdateHelperPairedWithSetFieldValue ==
  (JustAfterContextPass /\ Len(ContextDestructures(input.stmts)) = 1) =>
     UpdateListConsistent(Helpers(ast.stmts))

\* a list with update followed by the setFieldValue that calls it
C23_Witness ==
  /\ JustAfterContextPass /\ Len(ContextDestructures(input.stmts)) = 1
  /\ \E k \in DOMAIN Helpers(ast.stmts) :
        /\ IsUpdateHelper(Helpers(ast.stmts)[k])
        /\ k < Len(Helpers(ast.stmts))
        /\ IsHelperOf(Helpers(ast.stmts)[k + 1], "setFieldValue", "viaUpdate")

\* the spreads of a call of `callee` among the attributes of an element
SpreadsOf(attrs, callee) ==
  SelectSeq(attrs, LAMBDA a : a.type = "JSXSpreadAttribute" /\ a.arg.callee = callee)
SpreadingElements ==
  {i \in DOMAIN input.jsx.elements :
     \E a \in Range(SpreadsOf(input.jsx.elements[i].attrs, "getFieldProps")) :
        a.arg.argType # "none"}

\* C24: after the context-hook pass every spread of getFieldProps(arg) has become a
\* spread of getInputProps(fields[arg], { type: T }), T being the value of the
\* element's type attribute, "text" when it has none, and the type attribute is gone
C24_SpreadsBecomeGetInputProps ==
  JustAfterContextPass =>
    \A i \in SpreadingElements :
       LET before == input.jsx.elements[i].attrs
           after == ast.jsx.elements[i].attrs
           typeAttr == FindAttribute(before, "type")
           T == IF HasValue(typeAttr) THEN CarriedValue(typeAttr) ELSE Str("text")
           old == SpreadsOf(before, "getFieldProps")
           new == SpreadsOf(after, "getInputProps")
       IN /\ SpreadsOf(after, "getFieldProps") = <<>>
          /\ Len(new) = Len(old)
          /\ \A k \in DOMAIN new :
                /\ new[k].arg.obj = "fields" /\ new[k].arg.computed
                /\ new[k].arg.argVal = old[k].arg.argVal
                /\ new[k].arg.opts.type = T
          /\ FindAttribute(after, "type") = NullAttr

\* what an access off fields denotes: the field of that name (fields.x, fields["x"])
\* or the field named by the value of a variable (fields[x])
IsDotAccess(c) == c.obj = "fields" /\ c.argType = "Identifier" /\ ~c.computed
FieldDenoted(c) ==
  IF c.computed /\ c.argType = "Identifier"
  THEN [by |-> "variable", name |-> c.argVal]
  ELSE [by |-> "name", name |-> c.argVal]
SameFieldAfterFlip(before, after) ==
  IsDotAccess(before) => (after.computed /\ FieldDenoted(after) = FieldDenoted(before))

\* C25: the step of the field-access normalizer turns every dot access fields.X,
\* in a getInputProps call or elsewhere, into a computed access that denotes the
\* same field X
C25_FlipKeepsFieldName ==
  [][(pc = "transformFieldAccessPatterns" /\ pc' # pc) =>
       /\ \A i \in DOMAIN ast.stmts : SameFieldAfterFlip(ast.stmts[i].init, ast'.stmts[i].init)
       /\ \A i \in DOMAIN ast.jsx.elements :
             \A k \in DOMAIN ast.jsx.elements[i].attrs :
                SameFieldAfterFlip(ast.jsx.elements[i].attrs[k].arg,
                                   ast'.jsx.elements[i].attrs[k].arg)
       /\ ast.jsx.dots \subseteq ast'.jsx.keys]_vars

\* the attributes the element rewrite reads or drops on purpose
ConsumedAttrs ==
  {"onChange", "onBlur", "onClick", "value", "name", "as", "id", "type", "placeholder", "disabled"}

\* C26: an attribute of an input or Field of the form that the rewrite does not
\* consume (className, required, ...) is still on the rewritten element
C26_OtherAttributesKept ==
  FormikPassDone =>
    \A i \in FormFieldIndices :
       \A a \in Range(input.jsx.elements[i].attrs) :
          (a.type = "JSXAttribute" /\ a.name \notin ConsumedAttrs) =>
             a \in Range(ast.jsx.elements[i].attrs)

\* the names a program refers to: its identifiers and the tags of its elements
NamesReferredTo(text) ==
  FunctionIdentifiers(text.stmts, text.jsx)
  \cup {el.tag : el \in Range(text.jsx.elements)}
  \cup (IF text.jsx.formik # "none" THEN {"Formik"} ELSE {})
  \cup (IF text.jsx.formTag = "Form" THEN {"Form"} ELSE {})
BoundByImports(imports) ==
  UNION {{sp.imported, sp.local} : sp \in Range(AllSpecifiers(imports))}
FormikLocals(imports) == {sp.local : sp \in Range(FormikSpecifiers(imports))}
IntroducedSymbols == {"getInputProps", "useForm", "useField", "useFormMetadata", "parseWithYup"}
Converted == output.status = "returned" /\ trace # <<>>

\* C27: in the text convert returns, no name that only a removed formik import bound
\* is still referred to, and each of getInputProps, useForm, useField,
\* useFormMetadata and parseWithYup that is referred to is imported
C27_ReferencedSymbolsImported ==
  Converted =>
    /\ \A n \in FormikLocals(input.imports) \ IntroducedSymbols :
          n \in NamesReferredTo(output.text) => n \in BoundByImports(output.text.imports)
    /\ \A n \in IntroducedSymbols \ NamesReferredTo(input) :
          n \in NamesReferredTo(output.text) => n \in BoundByImports(output.text.imports)

\* the names a statement declares
DeclaredNames(s) ==
  CASE s.kind = "other" -> {}
    [] s.idType = "Identifier" -> {s.idName}
    [] s.idType = "ObjectPattern" -> Range(s.props)
    [] s.kind = "helper" -> {"form", "fields"}
    [] OTHER -> ArrayPatternNames(s)
DeclaredIn(stmts) == UNION {DeclaredNames(s) : s \in Range(stmts)}

\* the destructuring patterns of the two hooks, which the passes take away
IsHookDestructure(s) ==
  /\ s.kind = "decl"
  /\ \/ s.idType = "ObjectPattern" /\ s.init.callee = "useFormikContext"
     \/ s.idType = "ArrayPattern" /\ s.init.callee = "useField"
RemovedBindings(text) ==
  UNION {DeclaredNames(s) : s \in {t \in Range(text.stmts) : IsHookDestructure(t)}}

\* the names the statements after the declarations and the returned JSX read
NamesRead(text) ==
  UNION {s.refs : s \in {t \in Range(text.stmts) : t.kind = "other"}}
  \cup JsxIdentifiers(text.jsx)

\* C28: every name a hook destructure of the input bound, and the returned text
\* still reads, is declared in the returned text
C28_RemovedNamesReboundSameName ==
  Converted =>
    \A n \in RemovedBindings(input) :
       n \in NamesRead(output.text) => n \in DeclaredIn(output.text.stmts)

\* the names the passes synthesize declarations of
SynthesizedNames ==
  {"form", "fields", "value", "setValue", "setTouched", "field"}
  \cup {"values", "update", "setFieldValue", "setFieldTouched", "isSubmitting"}
\* the statements of the function body itself that declare n
DeclarationsOf(stmts, n) == {i \in DOMAIN stmts : ~stmts[i].nested /\ n \in DeclaredNames(stmts[i])}

\* C29: the body of the component in the returned text declares each of form,
\* fields, value, setValue, setTouched and each context helper at most once
C29_NoNameDeclaredTwice ==
  Converted =>
    \A n \in SynthesizedNames : Cardinality(DeclarationsOf(output.text.stmts, n)) <= 1

\* the entry of the tree a path of the walk names
FileAt(fs, path) ==
  LET dir == IF Len(path) = 1 THEN "root" ELSE path[Len(path) - 1]
  IN CHOOSE e \in Range(fs[dir]) : e.name = path[Len(path)]
ConvertThrew(path) == path \in Range(cli.converted) /\ FileAt(cli.fs, path).outcome = "convertFails"

\* C30: a file is overwritten only after convert was called on its content and
\* returned; a file whose conversion threw is never overwritten
C30_WrittenOnlyAfterConversion ==
  /\ \A p \in Range(cli.written) :
        p \in Range(cli.converted) /\ FileAt(cli.fs, p).outcome = "ok"
  /\ \A p \in Range(cli.converted) : ConvertThrew(p) => p \notin Range(cli.written)

\* a finished run in which the conversion of App.tsx threw, the file was left alone
\* and the error logged, while sub/Form was converted and overwritten
C30_Witness ==
  /\ cli.phase = "done"
  /\ ConvertThrew(<<"App">>) /\ <<"App">> \notin Range(cli.written)
  /\ Line("error", <<"App">>) \in Range(cli.log)
  /\ <<"sub", "Form">> \in Range(cli.written)
====
